---- MODULE Spec2Model ----
(***************************************************************************)
(* Model of ItkImFilter.cpp (Gerardus ItkToolbox): the MEX entry point     *)
(* mexFunction, the rank / element type / filter name dispatch cascade,    *)
(* and the FilterWrapper specialisations that bind parameters and outputs. *)
(*                                                                         *)
(* One invocation of the MEX function runs from Invoke to pc = "done" or   *)
(* pc = "error" (mexErrMsgTxt never returns to its caller).  The ITK       *)
(* algorithms themselves and the Matlab import/export helper classes are   *)
(* outside the file; they appear here only through the calls made to them. *)
(***************************************************************************)
EXTENDS Integers, Sequences, FiniteSets, TLC

VARIABLES
  pc,       \* position of the invocation in the code
  prhs,     \* right-hand-side arguments: <<TYPE, A, parameters...>>
  nlhs,     \* number of outputs requested by the caller
  sel,      \* FilterWrapper specialisation selected by the dispatch
  regIn,    \* inputs registered at the import filter, in registration order
  regOut,   \* outputs registered at the export filter, in registration order
  filter,   \* the ITK filter object: constructed?, parameters set, updated?
  out,      \* Matlab outputs allocated so far: name -> [type, size]
  err,      \* the failure raised by the invocation, if any
  prev      \* history: an earlier invocation and how it ended (observer only)

vars == <<pc, prhs, nlhs, sel, regIn, regOut, filter, out, err, prev>>

(***************************************************************************)
(* Bounds of the model.                                                    *)
(***************************************************************************)
\* images have 1..MaxNDim dimensions
MaxNDim == 5
\* the caller passes up to ExtraArgs arguments more than a filter declares
ExtraArgs == 1
\* the caller requests up to ExtraOuts outputs more than a filter declares
ExtraOuts == 1

(***************************************************************************)
(* Program constants.                                                      *)
(***************************************************************************)
INT_MAX == 2147483647

\* enum SupportedFilter
SupportedFilter ==
  << "nCannyEdgeDetectionImageFilter",
     "nVotingBinaryIterativeHoleFillingImageFilter",
     "nApproximateSignedDistanceMapImageFilter",
     "nMedianImageFilter",
     "nMultiScaleHessianSmoothed3DToVesselnessMeasureImageFilter",
     "nAnisotropicDiffusionVesselEnhancementImageFilter",
     "nBinaryThinningImageFilter3D",
     "nSignedDanielssonDistanceMapImageFilter",
     "nDanielssonDistanceMapImageFilter",
     "nSignedMaurerDistanceMapImageFilter",
     "nBinaryDilateImageFilter",
     "nBinaryErodeImageFilter",
     "nMRFImageFilter" >>

Filters == { SupportedFilter[i] : i \in 1..Len(SupportedFilter) }

\* Matlab class ids an input array can have (mxClassID)
MxClasses ==
  { "mxLOGICAL_CLASS", "mxDOUBLE_CLASS", "mxSINGLE_CLASS", "mxINT8_CLASS",
    "mxUINT8_CLASS", "mxINT16_CLASS", "mxUINT16_CLASS", "mxINT32_CLASS",
    "mxUINT32_CLASS", "mxINT64_CLASS", "mxUINT64_CLASS", "mxUNKNOWN_CLASS" }

(***************************************************************************)
(* Numbers.  A Matlab scalar is a binary floating point number; the model  *)
(* keeps it exactly, as m * 2^e * b with m odd (or zero): b is "one" for a *)
(* literal and the name of a type's largest finite value otherwise.        *)
(***************************************************************************)
RECURSIVE Power(_, _)
Power(x, k) == IF k = 0 THEN 1 ELSE x * Power(x, k - 1)

Pow2(k) == Power(2, k)

RECURSIVE Norm(_)
Norm(x) ==
  IF x.m = 0 THEN [b |-> "one", m |-> 0, e |-> 0]
  ELSE IF x.m % 2 = 0 THEN Norm([b |-> x.b, m |-> x.m \div 2, e |-> x.e + 1])
  ELSE x

Lit(m, e) == Norm([b |-> "one", m |-> m, e |-> e])

\* std::numeric_limits<T>::max()
NumericLimitsMax(t) ==
  CASE t = "float"     -> [b |-> "FLT_MAX", m |-> 1, e |-> 0]
    [] t = "double"    -> [b |-> "DBL_MAX", m |-> 1, e |-> 0]
    [] t = "mxLogical" -> Lit(1, 0)
    [] t = "int8_T"    -> Lit(127, 0)
    [] t = "uint8_T"   -> Lit(255, 0)
    [] t = "int16_T"   -> Lit(32767, 0)
    [] t = "uint16_T"  -> Lit(65535, 0)
    [] t = "int32_T"   -> Lit(2147483647, 0)
    [] t = "int64_T"   -> [b |-> "INT64_MAX", m |-> 1, e |-> 0]

FloatingTypes == { "float", "double" }

\* exponent of the smallest positive (subnormal) value of a floating type
MinExponent(t) == IF t = "float" THEN 0 - 149 ELSE 0 - 1074

\* m / 2^k rounded to the nearest integer, ties to even (IEEE 754 default)
RoundHalfEven(m, k) ==
  LET q == m \div Pow2(k)
      r == m % Pow2(k)
      h == Pow2(k - 1)
  IN  IF r > h THEN q + 1
      ELSE IF r < h THEN q
      ELSE IF q % 2 = 0 THEN q ELSE q + 1

\* m * 2^e truncated towards zero (conversion of a floating value to an
\* integer type)
Truncate(x) ==
  IF x.e >= 0 THEN x.m * Pow2(x.e)
  ELSE IF x.m >= 0 THEN x.m \div Pow2(0 - x.e)
  ELSE 0 - ((0 - x.m) \div Pow2(0 - x.e))

\* static_cast<T>(x) of a value x held in a (wider or equal) floating type;
\* mantissas stay below 2^30, so a value more than 30 binary places below
\* the smallest subnormal rounds to zero
StaticCast(t, x) ==
  IF x.b # "one" THEN x
  ELSE IF t \in FloatingTypes THEN
    IF x.m = 0 \/ x.e >= MinExponent(t) THEN x
    ELSE IF MinExponent(t) - x.e > 30 THEN Lit(0, 0)
    ELSE Lit(RoundHalfEven(x.m, MinExponent(t) - x.e), MinExponent(t))
  ELSE IF t \in { "bool", "mxLogical" } THEN
    IF x.m = 0 THEN Lit(0, 0) ELSE Lit(1, 0)
  ELSE Lit(Truncate(x), 0)

\* DivideByTwo with the division left out
DivideByTwoOmitted(x) == x

\* x / 2.0, evaluated in double precision
DivideByTwo(x) ==
  IF x.m = 0 THEN x
  ELSE StaticCast("double", [b |-> x.b, m |-> x.m, e |-> x.e - 1])

(***************************************************************************)
(* The interface each FilterWrapper specialisation declares.               *)
(***************************************************************************)
\* InputIndexType without IN_ISSIGMASTEPLOG in the enum of advess
InputIndexTypeAdvessWithoutLog(f) ==
  CASE f = "nCannyEdgeDetectionImageFilter" ->
         << "TYPE", "A", "VAR", "UPPTHR", "LOWTHR", "MAXERR" >>
    [] f = "nVotingBinaryIterativeHoleFillingImageFilter" ->
         << "TYPE", "A", "RADIUS", "MAXITER", "THR", "BACKGROUND",
            "FOREGROUND" >>
    [] f = "nApproximateSignedDistanceMapImageFilter" -> << "TYPE", "A" >>
    [] f = "nMedianImageFilter" -> << "TYPE", "A", "RADIUS" >>
    [] f = "nMultiScaleHessianSmoothed3DToVesselnessMeasureImageFilter" ->
         << "TYPE", "A", "SIGMAMIN", "SIGMAMAX", "NUMSIGMASTEPS",
            "ISSIGMASTEPLOG" >>
    [] f = "nAnisotropicDiffusionVesselEnhancementImageFilter" ->
         << "TYPE", "A", "SIGMAMIN", "SIGMAMAX", "NUMSIGMASTEPS",
            "NUMITERATIONS", "WSTRENGTH", "SENSITIVITY", "TIMESTEP",
            "EPSILON" >>
    [] f = "nBinaryThinningImageFilter3D" -> << "TYPE", "A" >>
    [] f = "nSignedDanielssonDistanceMapImageFilter" -> << "TYPE", "A" >>
    [] f = "nDanielssonDistanceMapImageFilter" -> << "TYPE", "A" >>
    [] f = "nSignedMaurerDistanceMapImageFilter" -> << "TYPE", "A" >>
    [] f = "nBinaryDilateImageFilter" ->
         << "TYPE", "A", "RADIUS", "FOREGROUND" >>
    [] f = "nBinaryErodeImageFilter" ->
         << "TYPE", "A", "RADIUS", "FOREGROUND" >>
    [] f = "nMRFImageFilter" ->
         << "TYPE", "A", "MU", "WEIGHTS", "SMOOTH", "NITER", "TOL" >>

\* enum InputIndexType of each real specialisation (InputIndexType_MAX is
\* its length)
InputIndexType(f) ==
  CASE f = "nCannyEdgeDetectionImageFilter" ->
         << "TYPE", "A", "VAR", "UPPTHR", "LOWTHR", "MAXERR" >>
    [] f = "nVotingBinaryIterativeHoleFillingImageFilter" ->
         << "TYPE", "A", "RADIUS", "MAXITER", "THR", "BACKGROUND",
            "FOREGROUND" >>
    [] f = "nApproximateSignedDistanceMapImageFilter" -> << "TYPE", "A" >>
    [] f = "nMedianImageFilter" -> << "TYPE", "A", "RADIUS" >>
    [] f = "nMultiScaleHessianSmoothed3DToVesselnessMeasureImageFilter" ->
         << "TYPE", "A", "SIGMAMIN", "SIGMAMAX", "NUMSIGMASTEPS",
            "ISSIGMASTEPLOG" >>
    [] f = "nAnisotropicDiffusionVesselEnhancementImageFilter" ->
         << "TYPE", "A", "SIGMAMIN", "SIGMAMAX", "NUMSIGMASTEPS",
            "ISSIGMASTEPLOG", "NUMITERATIONS", "WSTRENGTH", "SENSITIVITY",
            "TIMESTEP", "EPSILON" >>
    [] f = "nBinaryThinningImageFilter3D" -> << "TYPE", "A" >>
    [] f = "nSignedDanielssonDistanceMapImageFilter" -> << "TYPE", "A" >>
    [] f = "nDanielssonDistanceMapImageFilter" -> << "TYPE", "A" >>
    [] f = "nSignedMaurerDistanceMapImageFilter" -> << "TYPE", "A" >>
    [] f = "nBinaryDilateImageFilter" ->
         << "TYPE", "A", "RADIUS", "FOREGROUND" >>
    [] f = "nBinaryErodeImageFilter" ->
         << "TYPE", "A", "RADIUS", "FOREGROUND" >>
    [] f = "nMRFImageFilter" ->
         << "TYPE", "A", "MU", "WEIGHTS", "SMOOTH", "NITER", "TOL" >>

\* InputIndexType_MAX counted one too many
InputIndexType_MAXPlusOne(f) == Len(InputIndexType(f)) + 1

InputIndexType_MAX(f) == Len(InputIndexType(f))

\* enum OutputIndexType of each real specialisation
OutputIndexType(f) ==
  CASE f = "nCannyEdgeDetectionImageFilter" -> << "B", "C" >>
    [] f \in { "nSignedDanielssonDistanceMapImageFilter",
               "nDanielssonDistanceMapImageFilter" } -> << "B", "V", "W" >>
    [] OTHER -> << "B" >>

\* OutputIndexType_MAX counted one too many
OutputIndexType_MAXPlusOne(f) == Len(OutputIndexType(f)) + 1

OutputIndexType_MAX(f) == Len(OutputIndexType(f))

\* MinNumberOfArguments with the MRF filter's required MU forgotten
MinNumberOfArgumentsAlwaysTwo(f) == 2

\* first argument of matlabImport->CheckNumberOfArguments() in each real
\* specialisation
MinNumberOfArguments(f) == IF f = "nMRFImageFilter" THEN 3 ELSE 2

(***************************************************************************)
(* Parameters of each real specialisation, in the order the constructor    *)
(* reads them.  kind is the import filter's reader:                        *)
(*   "scalar"   ReadScalarFromMatlab<ctype>(in, def)                       *)
(*   "half"     ReadScalarFromMatlab<ctype>(in, value of ref / 2.0)        *)
(*   "rowvec"   ReadRowVectorFromMatlab<ctype, fixed array>(in, Fill(def)) *)
(*   "stdvec"   ReadRowVectorFromMatlab<ctype, std::vector>(in, empty)     *)
(*   "array"    ReadArrayAsVectorFromMatlab + ReadMatlabArrayHalfSize      *)
(* ctype "TPixelIn" stands for the pixel type of the instantiation.        *)
(***************************************************************************)
\* a decimal literal of the source that is no binary fraction, kept by name
Dec(str) == [b |-> str, m |-> 1, e |-> 0]

P(name, kind, ctype, def, ref) ==
  [name |-> name, kind |-> kind, ctype |-> ctype, def |-> def, ref |-> ref]

\* canny
CannyParameters ==
  << P("VAR", "rowvec", "double", Lit(0, 0), ""),
     P("UPPTHR", "scalar", "TPixelIn", Lit(0, 0), "max"),
     P("LOWTHR", "half", "TPixelIn", Lit(0, 0), "UPPTHR"),
     P("MAXERR", "rowvec", "double", Dec("0.01"), "") >>

\* voteholefill
VotingParameters ==
  << P("RADIUS", "rowvec", "unsigned long", Lit(1, 0), ""),
     P("MAXITER", "scalar", "unsigned int", Lit(1, 0), ""),
     P("THR", "scalar", "unsigned int", Lit(2, 0), ""),
     P("BACKGROUND", "scalar", "TPixelIn", Lit(0, 0), ""),
     P("FOREGROUND", "scalar", "TPixelIn", Lit(1, 0), "") >>

\* median
MedianParameters ==
  << P("RADIUS", "rowvec", "unsigned long", Lit(0, 0), "") >>

\* HessianParameters with NUMSIGMASTEPS defaulting to 5
HessianParametersFewerSteps ==
  << P("SIGMAMIN", "scalar", "double", Dec("0.2"), ""),
     P("SIGMAMAX", "scalar", "double", Lit(2, 0), ""),
     P("NUMSIGMASTEPS", "scalar", "int", Lit(5, 0), ""),
     P("ISSIGMASTEPLOG", "scalar", "bool", Lit(1, 0), "") >>

\* hesves
HessianParameters ==
  << P("SIGMAMIN", "scalar", "double", Dec("0.2"), ""),
     P("SIGMAMAX", "scalar", "double", Lit(2, 0), ""),
     P("NUMSIGMASTEPS", "scalar", "int", Lit(10, 0), ""),
     P("ISSIGMASTEPLOG", "scalar", "bool", Lit(1, 0), "") >>

\* advess
VesselEnhancementParameters ==
  << P("SIGMAMIN", "scalar", "double", Dec("0.2"), ""),
     P("SIGMAMAX", "scalar", "double", Lit(2, 0), ""),
     P("NUMSIGMASTEPS", "scalar", "int", Lit(10, 0), ""),
     P("ISSIGMASTEPLOG", "scalar", "bool", Lit(1, 0), ""),
     P("NUMITERATIONS", "scalar", "int", Lit(1, 0), ""),
     P("WSTRENGTH", "scalar", "double", Lit(25, 0), ""),
     P("SENSITIVITY", "scalar", "double", Lit(5, 0), ""),
     P("TIMESTEP", "scalar", "double", Dec("1e-3"), ""),
     P("EPSILON", "scalar", "double", Dec("1e-2"), "") >>

\* DilateParameters with FOREGROUND defaulting to the largest value of the
\* pixel type, the default of the ITK filter
DilateParametersForegroundMax ==
  << P("RADIUS", "scalar", "unsigned long", Lit(0, 0), ""),
     P("FOREGROUND", "scalar", "TPixelIn", Lit(0, 0), "max") >>

\* bwdilate
DilateParameters ==
  << P("RADIUS", "scalar", "unsigned long", Lit(0, 0), ""),
     P("FOREGROUND", "scalar", "TPixelIn", Lit(1, 0), "") >>

\* bwerode
ErodeParameters ==
  << P("RADIUS", "scalar", "unsigned long", Lit(0, 0), ""),
     P("FOREGROUND", "scalar", "TPixelIn", Lit(1, 0), "") >>

\* mrf
MRFParameters ==
  << P("MU", "stdvec", "TPixelIn", Lit(0, 0), ""),
     P("WEIGHTS", "array", "double", Lit(1, 0), ""),
     P("SMOOTH", "scalar", "double", Dec("1e-7"), ""),
     P("NITER", "scalar", "unsigned int", Lit(100, 0), ""),
     P("TOL", "scalar", "double", Dec("1e-7"), "") >>

Parameters(f) ==
  CASE f = "nCannyEdgeDetectionImageFilter" -> CannyParameters
    [] f = "nVotingBinaryIterativeHoleFillingImageFilter" -> VotingParameters
    [] f = "nMedianImageFilter" -> MedianParameters
    [] f = "nMultiScaleHessianSmoothed3DToVesselnessMeasureImageFilter" ->
         HessianParameters
    [] f = "nAnisotropicDiffusionVesselEnhancementImageFilter" ->
         VesselEnhancementParameters
    [] f = "nBinaryDilateImageFilter" -> DilateParameters
    [] f = "nBinaryErodeImageFilter" -> ErodeParameters
    [] f = "nMRFImageFilter" -> MRFParameters
    [] OTHER -> << >>

(***************************************************************************)
(* Outputs of each real specialisation: the pixel type the output is       *)
(* instantiated with, whether it is grafted before filter->Update() or     *)
(* copied after it, and whether its pixels are offset vectors.             *)
(***************************************************************************)
O(name, type, when, vector) ==
  [name |-> name, type |-> type, when |-> when, vector |-> vector]

\* OffsetValueType taken to be the pixel type of the input image
OffsetValueTypeOfInput == "TPixelIn"

\* OffsetValueType of itk::Offset, a signed 64-bit integer
OffsetValueType == "int64_T"

\* Outputs with the vesselness measure of hesves produced in single precision
OutputsVesselnessAsFloat(f) ==
  CASE f = "nCannyEdgeDetectionImageFilter" ->
         << O("B", "TPixelIn", "graft", FALSE),
            O("C", "TPixelIn", "copy", FALSE) >>
    [] f = "nVotingBinaryIterativeHoleFillingImageFilter" ->
         << O("B", "TPixelIn", "copy", FALSE) >>
    [] f = "nApproximateSignedDistanceMapImageFilter" ->
         << O("B", "float", "graft", FALSE) >>
    [] f = "nMedianImageFilter" -> << O("B", "TPixelIn", "graft", FALSE) >>
    [] f = "nMultiScaleHessianSmoothed3DToVesselnessMeasureImageFilter" ->
         << O("B", "float", "graft", FALSE) >>
    [] f = "nAnisotropicDiffusionVesselEnhancementImageFilter" ->
         << O("B", "TPixelIn", "graft", FALSE) >>
    [] f = "nBinaryThinningImageFilter3D" ->
         << O("B", "TPixelIn", "graft", FALSE) >>
    [] f = "nSignedDanielssonDistanceMapImageFilter" ->
         << O("B", "float", "graft", FALSE),
            O("V", "TPixelIn", "graft", FALSE),
            O("W", OffsetValueType, "graft", TRUE) >>
    [] f = "nDanielssonDistanceMapImageFilter" ->
         << O("B", "double", "graft", FALSE),
            O("V", "TPixelIn", "graft", FALSE),
            O("W", OffsetValueType, "graft", TRUE) >>
    [] f = "nSignedMaurerDistanceMapImageFilter" ->
         << O("B", "float", "copy", FALSE) >>
    [] f = "nBinaryDilateImageFilter" ->
         << O("B", "TPixelIn", "graft", FALSE) >>
    [] f = "nBinaryErodeImageFilter" ->
         << O("B", "TPixelIn", "graft", FALSE) >>
    [] f = "nMRFImageFilter" -> << O("B", "uint8_T", "graft", FALSE) >>

Outputs(f) ==
  CASE f = "nCannyEdgeDetectionImageFilter" ->
         << O("B", "TPixelIn", "graft", FALSE),
            O("C", "TPixelIn", "copy", FALSE) >>
    [] f = "nVotingBinaryIterativeHoleFillingImageFilter" ->
         << O("B", "TPixelIn", "copy", FALSE) >>
    [] f = "nApproximateSignedDistanceMapImageFilter" ->
         << O("B", "float", "graft", FALSE) >>
    [] f = "nMedianImageFilter" -> << O("B", "TPixelIn", "graft", FALSE) >>
    [] f = "nMultiScaleHessianSmoothed3DToVesselnessMeasureImageFilter" ->
         << O("B", "double", "graft", FALSE) >>
    [] f = "nAnisotropicDiffusionVesselEnhancementImageFilter" ->
         << O("B", "TPixelIn", "graft", FALSE) >>
    [] f = "nBinaryThinningImageFilter3D" ->
         << O("B", "TPixelIn", "graft", FALSE) >>
    [] f = "nSignedDanielssonDistanceMapImageFilter" ->
         << O("B", "float", "graft", FALSE),
            O("V", "TPixelIn", "graft", FALSE),
            O("W", OffsetValueType, "graft", TRUE) >>
    [] f = "nDanielssonDistanceMapImageFilter" ->
         << O("B", "double", "graft", FALSE),
            O("V", "TPixelIn", "graft", FALSE),
            O("W", OffsetValueType, "graft", TRUE) >>
    [] f = "nSignedMaurerDistanceMapImageFilter" ->
         << O("B", "float", "copy", FALSE) >>
    [] f = "nBinaryDilateImageFilter" ->
         << O("B", "TPixelIn", "graft", FALSE) >>
    [] f = "nBinaryErodeImageFilter" ->
         << O("B", "TPixelIn", "graft", FALSE) >>
    [] f = "nMRFImageFilter" -> << O("B", "uint8_T", "graft", FALSE) >>

(***************************************************************************)
(* The FilterWrapper class template and its partial specialisations.       *)
(* t = "*" and d = 0 stand for a template parameter left open.  body is    *)
(* "real" for a specialisation that runs the ITK filter and "stub" for one *)
(* whose constructor only raises msg.                                      *)
(***************************************************************************)
W(t, d, f, body, msg) ==
  [t |-> t, d |-> d, f |-> f, body |-> body, msg |-> msg]

\* the primary template
PrimaryTemplate(t, d, f) == W(t, d, f, "stub", "Unsupported filter type")

FloatingOnlyMsg ==
  "CannyEdgeDetectionImageFilter only accepts input images with floating type (double or single)"

\* RealSpecialisations with no specialisation for the median filter
RealSpecialisationsWithoutMedian ==
  { W("*", 0, f, "real", "") : f \in Filters \ { "nMedianImageFilter" } }

\* the specialisations on the filter alone, one per filter
RealSpecialisations == { W("*", 0, f, "real", "") : f \in Filters }

\* CannyStubs with the specialisation on int64_T missing
CannyStubsWithoutInt64 ==
  { W(t, 0, "nCannyEdgeDetectionImageFilter", "stub", FloatingOnlyMsg) :
      t \in { "mxLogical", "int8_T", "uint8_T", "int16_T", "uint16_T",
              "int32_T" } }

\* the specialisations of the Canny filter on an integer or boolean pixel type
CannyStubs ==
  { W(t, 0, "nCannyEdgeDetectionImageFilter", "stub", FloatingOnlyMsg) :
      t \in { "mxLogical", "int8_T", "uint8_T", "int16_T", "uint16_T",
              "int32_T", "int64_T" } }

\* Only3DStubs with the specialisations on dimension 4 missing
Only3DStubsWithout4D ==
  { W("*", 2, f, "stub", "only accepts 3D input images") :
      f \in { "nMultiScaleHessianSmoothed3DToVesselnessMeasureImageFilter",
              "nAnisotropicDiffusionVesselEnhancementImageFilter",
              "nBinaryThinningImageFilter3D" } }

\* the specialisations of the 3D-only filters on dimensions 2 and 4
Only3DStubs ==
  { W("*", d, "nMultiScaleHessianSmoothed3DToVesselnessMeasureImageFilter",
      "stub",
      "MultiScaleHessianSmoothed3DToVesselnessMeasureImageFilter only accepts 3D input images") :
      d \in { 2, 4 } }
  \cup
  { W("*", d, "nAnisotropicDiffusionVesselEnhancementImageFilter", "stub",
      "AnisotropicDiffusionVesselEnhancementImageFilter only accepts 3D input images") :
      d \in { 2, 4 } }
  \cup
  { W("*", d, "nBinaryThinningImageFilter3D", "stub",
      "BinaryThinningImageFilter3D only accepts 3D input images") :
      d \in { 2, 4 } }

\* MaurerStubs with the specialisation fixed on dimension 3 as well
MaurerStubsOnlyIn3D ==
  { W("mxLogical", 3, "nSignedMaurerDistanceMapImageFilter", "stub",
      "SignedMaurerDistanceMapImageFilter does not accept input image with type boolean") }

\* the specialisation of the Maurer distance filter on boolean pixels
MaurerStubs ==
  { W("mxLogical", 0, "nSignedMaurerDistanceMapImageFilter", "stub",
      "SignedMaurerDistanceMapImageFilter does not accept input image with type boolean") }

Specialisations ==
  RealSpecialisations \cup CannyStubs \cup Only3DStubs \cup MaurerStubs

Matches(w, t, d, f) ==
  /\ w.f = f
  /\ w.t \in { "*", t }
  /\ w.d \in { 0, d }

\* number of template parameters a partial specialisation fixes
Fixed(w) == (IF w.t = "*" THEN 0 ELSE 1) + (IF w.d = 0 THEN 0 ELSE 1)

\* FilterWrapper with only the specialisations on the filter: every cell
\* instantiates the real wrapper
FilterWrapperWithoutStubs(t, d, f) == W(t, d, f, "real", "")

\* FilterWrapper<t, d, f>: the most specialised matching partial
\* specialisation, the primary template when none matches
FilterWrapper(t, d, f) ==
  LET cand == { w \in Specialisations : Matches(w, t, d, f) }
      best == { w \in cand : \A v \in cand : Fixed(v) <= Fixed(w) }
  IN  IF cand = {} THEN PrimaryTemplate(t, d, f)
      ELSE LET w == CHOOSE w \in best : TRUE
           IN  W(t, d, f, w.body, w.msg)

(***************************************************************************)
(* parseOutputImageTypeToTemplate: the filter names, in the order of the   *)
(* if / else if chain.                                                     *)
(***************************************************************************)
FilterNames ==
  << << "canny", "CannyEdgeDetectionImageFilter",
        "nCannyEdgeDetectionImageFilter" >>,
     << "appsigndist", "ApproximateSignedDistanceMapImageFilter",
        "nApproximateSignedDistanceMapImageFilter" >>,
     << "median", "MedianImageFilter", "nMedianImageFilter" >>,
     << "advess", "AnisotropicDiffusionVesselEnhancementImageFilter",
        "nAnisotropicDiffusionVesselEnhancementImageFilter" >>,
     << "bwdilate", "BinaryDilateImageFilter", "nBinaryDilateImageFilter" >>,
     << "bwerode", "BinaryErodeImageFilter", "nBinaryErodeImageFilter" >>,
     << "skel", "BinaryThinningImageFilter3D",
        "nBinaryThinningImageFilter3D" >>,
     << "signdandist", "SignedDanielssonDistanceMapImageFilter",
        "nSignedDanielssonDistanceMapImageFilter" >>,
     << "dandist", "DanielssonDistanceMapImageFilter",
        "nDanielssonDistanceMapImageFilter" >>,
     << "hesves",
        "MultiScaleHessianSmoothed3DToVesselnessMeasureImageFilter",
        "nMultiScaleHessianSmoothed3DToVesselnessMeasureImageFilter" >>,
     << "maudist", "SignedMaurerDistanceMapImageFilter",
        "nSignedMaurerDistanceMapImageFilter" >>,
     << "mrf", "MRFImageFilter", "nMRFImageFilter" >>,
     << "voteholefill", "VotingBinaryIterativeHoleFillingImageFilter",
        "nVotingBinaryIterativeHoleFillingImageFilter" >> >>

\* NameMatches comparing without regard to case
NameMatchesIgnoringCase(filterName, entry) ==
  LET lower == CASE filterName = "Canny" -> "canny"
                 [] filterName = "SKEL" -> "skel"
                 [] OTHER -> filterName
  IN  lower = entry[1] \/ lower = entry[2]

\* filterName == short || filterName == full (std::string comparison)
NameMatches(filterName, entry) ==
  filterName = entry[1] \/ filterName = entry[2]

\* the branch of the chain taken for filterName: the enum value of the
\* first entry that matches, "" for the final else
SelectFilter(filterName) ==
  LET hits == { i \in 1..Len(FilterNames) :
                  NameMatches(filterName, FilterNames[i]) }
  IN  IF hits = {} THEN ""
      ELSE FilterNames[CHOOSE i \in hits : \A j \in hits : i <= j][3]

(***************************************************************************)
(* parseInputImageTypeToTemplate: the switch on im.type.                   *)
(***************************************************************************)
\* PixelTypeOfClass with the commented-out case of mxUINT32_CLASS enabled
PixelTypeOfClassWithUint32(c) ==
  CASE c = "mxLOGICAL_CLASS" -> "mxLogical"
    [] c = "mxDOUBLE_CLASS"  -> "double"
    [] c = "mxSINGLE_CLASS"  -> "float"
    [] c = "mxINT8_CLASS"    -> "int8_T"
    [] c = "mxUINT8_CLASS"   -> "uint8_T"
    [] c = "mxINT16_CLASS"   -> "int16_T"
    [] c = "mxUINT16_CLASS"  -> "uint16_T"
    [] c = "mxINT32_CLASS"   -> "int32_T"
    [] c = "mxUINT32_CLASS"  -> "uint32_T"
    [] c = "mxINT64_CLASS"   -> "int64_T"
    [] OTHER                 -> ""

\* the pixel type of the case taken, "" for the cases that raise an error
PixelTypeOfClass(c) ==
  CASE c = "mxLOGICAL_CLASS" -> "mxLogical"
    [] c = "mxDOUBLE_CLASS"  -> "double"
    [] c = "mxSINGLE_CLASS"  -> "float"
    [] c = "mxINT8_CLASS"    -> "int8_T"
    [] c = "mxUINT8_CLASS"   -> "uint8_T"
    [] c = "mxINT16_CLASS"   -> "int16_T"
    [] c = "mxUINT16_CLASS"  -> "uint16_T"
    [] c = "mxINT32_CLASS"   -> "int32_T"
    [] c = "mxINT64_CLASS"   -> "int64_T"
    [] OTHER                 -> ""

\* the message of the cases that raise an error
TypeErrorMessage(c) ==
  IF c = "mxUNKNOWN_CLASS" THEN "Input matrix has unknown type."
  ELSE "Input matrix has invalid type."

\* SupportedDimensions with a case for 5 dimensions
SupportedDimensionsWith5 == { 2, 3, 4, 5 }

\* the dimensions parseInputImageDimensionToTemplate has a case for
SupportedDimensions == { 2, 3, 4 }

(***************************************************************************)
(* Failures.  mexErrMsgTxt(msg) ends the invocation; kind files the        *)
(* message under the failure taxonomy.                                     *)
(***************************************************************************)
Failure(kind, msg, min, max, actual, param) ==
  [kind |-> kind, msg |-> msg, min |-> min, max |-> max, actual |-> actual,
   param |-> param]

NoFailure == Failure("none", "", 0, 0, 0, "")

mexErrMsgTxt(kind, msg) == Failure(kind, msg, 0, 0, 0, "")

(***************************************************************************)
(* The Matlab import / export filters (MatlabImportFilter,                 *)
(* MatlabExportFilter), as far as the wrappers use them.                   *)
(***************************************************************************)
\* CheckNumberOfArguments(min, max) on n arguments
CheckNumberOfArguments(kind, min, max, n) ==
  IF n < min \/ n > max THEN Failure(kind, "", min, max, n, "")
  ELSE NoFailure

\* position (from 0) of a name in an enum
RECURSIVE IndexOf(_, _, _)
IndexOf(name, enum, i) ==
  IF i > Len(enum) THEN 0 - 1
  ELSE IF enum[i] = name THEN i - 1
  ELSE IndexOf(name, enum, i + 1)

\* RegisterInput(pos, name): the argument at position pos, if the caller
\* gave one
IsProvided(args, pos) == pos >= 0 /\ pos < Len(args)

Argument(args, pos) == args[pos + 1]

Read(ok, v) == [ok |-> ok, v |-> v]

\* ReadScalarFromMatlab<ctype>(in, def): the first element of the argument,
\* cast to ctype
ReadScalarFromMatlab(ctype, args, pos, def) ==
  IF IsProvided(args, pos)
  THEN Read(TRUE, StaticCast(ctype, Argument(args, pos).data[1]))
  ELSE Read(TRUE, StaticCast(ctype, def))

\* ReadRowVectorFromMatlab<ctype, fixed array of n>(in, def): a vector of
\* length n taken as it is, or one scalar repeated n times
ReadRowVectorFromMatlab(ctype, args, pos, n, def) ==
  IF ~IsProvided(args, pos) THEN Read(TRUE, [i \in 1..n |-> def])
  ELSE LET data == Argument(args, pos).data
       IN  IF Len(data) = 1
           THEN Read(TRUE, [i \in 1..n |-> StaticCast(ctype, data[1])])
           ELSE IF Len(data) = n
           THEN Read(TRUE, [i \in 1..n |-> StaticCast(ctype, data[i])])
           ELSE Read(FALSE, << >>)

\* ReadRowVectorFromMatlab<ctype, std::vector>(in, def): a vector of any
\* length
ReadStdVectorFromMatlab(ctype, args, pos, def) ==
  IF ~IsProvided(args, pos) THEN Read(TRUE, def)
  ELSE LET data == Argument(args, pos).data
       IN  Read(TRUE, [i \in 1..Len(data) |-> StaticCast(ctype, data[i])])

\* ReadArrayAsVectorFromMatlab<std::vector<double>>(in, def)
ReadArrayAsVectorFromMatlab(args, pos, def) ==
  IF ~IsProvided(args, pos) THEN Read(TRUE, def)
  ELSE Read(TRUE, Argument(args, pos).data)

\* ReadMatlabArrayHalfSize<..., n>(in, def): (size - 1) / 2 on each axis of
\* an array of n dimensions
ReadMatlabArrayHalfSize(args, pos, n, def) ==
  IF ~IsProvided(args, pos) THEN Read(TRUE, def)
  ELSE LET size == Argument(args, pos).size
       IN  IF Len(size) = n
           THEN Read(TRUE, [i \in 1..n |-> (size[i] - 1) \div 2])
           ELSE Read(FALSE, << >>)

\* an output is produced when the caller asked for it; Matlab always takes
\* the first output
IsRequested(pos, n) == pos < n \/ pos = 0

\* size of a Matlab output: the size of the image, with one leading axis of
\* the image dimension for an image of vectors
OutputSize(size, vector) ==
  IF vector THEN << Len(size) >> \o size ELSE size

(***************************************************************************)
(* Reading the parameters inside a real specialisation.                    *)
(***************************************************************************)
EmptyMap == [x \in {} |-> 0]

\* DefaultWeights without the central weight set to zero
DefaultWeightsAllOnes(d) == [i \in 1..Power(3, d) |-> Lit(1, 0)]

\* weights(neighLength, 1.0); weights[(neighLength-1)/2] = 0.0
DefaultWeights(d) ==
  LET neighLength == Power(3, d)
  IN  [i \in 1..neighLength |->
         IF i - 1 = (neighLength - 1) \div 2 THEN Lit(0, 0) ELSE Lit(1, 0)]

(***************************************************************************)
(* Arithmetic of the weight rescaling.  A double is kept as the quotient   *)
(* num / den in lowest terms, the value the double computation             *)
(* approximates; den = 0 stands for what IEEE 754 gives on a division by   *)
(* zero: 1/0 is +Inf, -1/0 is -Inf and 0/0 is NaN.                         *)
(***************************************************************************)
RECURSIVE GCD(_, _)
GCD(a, b) == IF b = 0 THEN a ELSE GCD(b, a % b)

Abs(x) == IF x < 0 THEN 0 - x ELSE x

Sign(x) == IF x > 0 THEN 1 ELSE IF x < 0 THEN 0 - 1 ELSE 0

Quotient(num, den) ==
  IF den = 0 THEN [num |-> Sign(num), den |-> 0]
  ELSE LET g == GCD(Abs(num), Abs(den))
       IN  [num |-> (Sign(den) * num) \div g, den |-> Abs(den) \div g]

NaN == Quotient(0, 0)

IsFinite(x) == x.den # 0

\* static_cast<double>(x) of a value read from Matlab
ToDouble(x) ==
  IF x.e >= 0 THEN Quotient(x.m * Pow2(x.e), 1)
  ELSE Quotient(x.m, Pow2(0 - x.e))

\* x + y
Plus(x, y) ==
  IF IsFinite(x) /\ IsFinite(y)
  THEN Quotient(x.num * y.den + y.num * x.den, x.den * y.den)
  ELSE IF x = NaN \/ y = NaN THEN NaN
  ELSE IF IsFinite(y) THEN x
  ELSE IF IsFinite(x) \/ x = y THEN y
  ELSE NaN

\* x * y
Times(x, y) == Quotient(x.num * y.num, x.den * y.den)

\* x / y
Divide(x, y) == Quotient(x.num * y.den, x.den * y.num)

\* the sum of the first n elements of a vector of values read from Matlab,
\* accumulated in a double that starts at 0
RECURSIVE Accumulate(_, _)
Accumulate(v, n) ==
  IF n = 0 THEN Quotient(0, 1)
  ELSE Plus(Accumulate(v, n - 1), ToDouble(v[n]))

\* meanDistance: the sum of the centroids, divided by numberOfClasses
MeanDistance(centroid) ==
  Divide(Accumulate(centroid, Len(centroid)), Quotient(Len(centroid), 1))

\* totalWeight: the sum of the weights
TotalWeight(weights) == Accumulate(weights, Len(weights))

\* RescaleWeights dividing by totalWeight instead of 2 * totalWeight
RescaleWeightsByTotal(weights, meanDistance, totalWeight) ==
  [i \in 1..Len(weights) |->
     Divide(Times(ToDouble(weights[i]), meanDistance), totalWeight)]

\* *wIt = (*wIt) * meanDistance / (2 * totalWeight), for every weight
RescaleWeights(weights, meanDistance, totalWeight) ==
  [i \in 1..Len(weights) |->
     Divide(Times(ToDouble(weights[i]), meanDistance),
            Times(Quotient(2, 1), totalWeight))]

\* what the MRF wrapper computes from the parameters it has read and passes
\* to the filter
SetMRFParameters(par) ==
  LET centroid == par["MU"]
      weights  == par["WEIGHTS"]
  IN  par @@ ("NumberOfClasses" :> Len(centroid))
          @@ ("MRFNeighborhoodWeight" :>
                RescaleWeights(weights, MeanDistance(centroid),
                               TotalWeight(weights)))

\* one parameter p of filter f read from the arguments and set; par holds
\* the parameters set so far
ReadParameter(p, par, t, d, f, args) ==
  LET pos == IndexOf(p.name, InputIndexType(f), 1)
      ct  == IF p.ctype = "TPixelIn" THEN t ELSE p.ctype
  IN  CASE p.kind = "scalar" ->
             LET def == IF p.ref = "max" THEN NumericLimitsMax(t) ELSE p.def
                 r   == ReadScalarFromMatlab(ct, args, pos, def)
             IN  [ok |-> r.ok, par |-> par @@ (p.name :> r.v)]
        [] p.kind = "half" ->
             LET r == ReadScalarFromMatlab(ct, args, pos,
                                           DivideByTwo(par[p.ref]))
             IN  [ok |-> r.ok, par |-> par @@ (p.name :> r.v)]
        [] p.kind = "rowvec" ->
             LET r == ReadRowVectorFromMatlab(ct, args, pos, d, p.def)
             IN  [ok |-> r.ok, par |-> par @@ (p.name :> r.v)]
        [] p.kind = "stdvec" ->
             LET r == ReadStdVectorFromMatlab(ct, args, pos, << >>)
             IN  [ok |-> r.ok, par |-> par @@ (p.name :> r.v)]
        [] p.kind = "array" ->
             LET r == ReadArrayAsVectorFromMatlab(args, pos, DefaultWeights(d))
                 h == ReadMatlabArrayHalfSize(args, pos, d, [i \in 1..d |-> 1])
             IN  [ok |-> r.ok /\ h.ok,
                  par |-> par @@ (p.name :> r.v) @@ ("neighHalfSize" :> h.v)]

\* the parameters of filter f from the i-th on, read in order; bad names the
\* parameter whose argument could not be converted
RECURSIVE ReadParametersFrom(_, _, _, _, _, _)
ReadParametersFrom(i, par, t, d, f, args) ==
  IF i > Len(Parameters(f)) THEN [ok |-> TRUE, par |-> par, bad |-> ""]
  ELSE LET r == ReadParameter(Parameters(f)[i], par, t, d, f, args)
       IN  IF r.ok THEN ReadParametersFrom(i + 1, r.par, t, d, f, args)
           ELSE [ok |-> FALSE, par |-> par, bad |-> Parameters(f)[i].name]

ReadParameters(t, d, f, args) == ReadParametersFrom(1, EmptyMap, t, d, f, args)

\* the parameters the filter holds once the constructor has read them
SetParameters(f, par) ==
  IF f = "nMRFImageFilter" THEN SetMRFParameters(par) ELSE par

(***************************************************************************)
(* What the caller may pass.                                               *)
(***************************************************************************)
Scalar(x) == [size |-> << 1, 1 >>, data |-> << x >>]

RowVector(n) == [size |-> << 1, n >>, data |-> [i \in 1..n |-> Lit(i, 0)]]

\* an array of ones with 3 elements on each of d axes
OnesArray(d) ==
  [size |-> [i \in 1..d |-> 3],
   data |-> [i \in 1..Power(3, d) |-> Lit(1, 0)]]

\* an array of zeros with 3 elements on each of d axes
ZerosArray(d) ==
  [size |-> [i \in 1..d |-> 3],
   data |-> [i \in 1..Power(3, d) |-> Lit(0, 0)]]

\* an array of ones with 2 elements on the first axis and 3 on each of the
\* other d - 1 axes
EvenArray(d) ==
  [size |-> [i \in 1..d |-> IF i = 1 THEN 2 ELSE 3],
   data |-> [i \in 1..(2 * Power(3, d - 1)) |-> Lit(1, 0)]]

\* the row vector [10 50]
Centroids == [size |-> << 1, 2 >>, data |-> << Lit(10, 0), Lit(50, 0) >>]

\* the empty array []
EmptyArray == [size |-> << 0, 0 >>, data |-> << >>]

\* the image argument: Matlab class, number of dimensions, size
Image(c, n) == [type |-> c, ndim |-> n, size |-> [i \in 1..n |-> i + 1]]

\* the filter names tried: every accepted name and some that are not
NamePool ==
  { FilterNames[i][1] : i \in 1..Len(FilterNames) }
  \cup { FilterNames[i][2] : i \in 1..Len(FilterNames) }
  \cup { "Canny", "SKEL", "skeleton", "" }

\* the values tried for the parameter called name of filter f on an image of
\* n dimensions
ArgumentPool(f, name, n) ==
  CASE f = "nCannyEdgeDetectionImageFilter" /\ name = "UPPTHR" ->
         { Scalar(Lit(3, 0)), Scalar(Lit(1, 0 - 149)),
           Scalar(Lit(1, 0 - 1074)) }
    [] f = "nCannyEdgeDetectionImageFilter" /\ name = "LOWTHR" ->
         { Scalar(Lit(1, 0 - 2)) }
    [] f = "nMedianImageFilter" /\ name = "RADIUS" ->
         { Scalar(Lit(2, 0)), RowVector(n), RowVector(5) }
    [] f = "nMRFImageFilter" /\ name = "MU" ->
         { RowVector(2), Centroids, EmptyArray }
    [] f = "nMRFImageFilter" /\ name = "WEIGHTS" ->
         { OnesArray(IF n \in SupportedDimensions THEN n ELSE 2),
           ZerosArray(IF n \in SupportedDimensions THEN n ELSE 2),
           EvenArray(IF n \in SupportedDimensions THEN n ELSE 2) }
    [] name = "ISSIGMASTEPLOG" -> { Scalar(Lit(0, 0)), Scalar(Lit(5, 0)) }
    [] f \in { "nBinaryDilateImageFilter", "nBinaryErodeImageFilter" }
         /\ name = "RADIUS" -> { Scalar(Lit(1, 0)), Scalar(Lit(5, 0 - 1)) }
    [] OTHER -> { Scalar(Lit(1, 0)) }

\* the lists of k parameter values tried for filter f ("" for a name that is
\* no filter's)
RECURSIVE ArgumentLists(_, _, _)
ArgumentLists(f, n, k) ==
  IF k = 0 THEN { << >> }
  ELSE LET name == IF f # "" /\ k + 2 <= Len(InputIndexType(f))
                   THEN InputIndexType(f)[k + 2] ELSE ""
       IN  { Append(a, v) : a \in ArgumentLists(f, n, k - 1),
                            v \in ArgumentPool(f, name, n) }

MaxArguments(f) ==
  (IF f = "" THEN 2 ELSE Len(InputIndexType(f))) + ExtraArgs

MaxRequested(f) ==
  (IF f = "" THEN 1 ELSE Len(OutputIndexType(f))) + ExtraOuts

(***************************************************************************)
(* The state machine.                                                      *)
(***************************************************************************)
NoFilter == [f |-> "", par |-> EmptyMap, updated |-> FALSE]

NoSelection == W("", 0, "", "", "")

\* no invocation has been recorded
NoInvocation == [run |-> "none"]

Init ==
  /\ pc = "idle"
  /\ prhs = << >>
  /\ nlhs = 0
  /\ sel = NoSelection
  /\ regIn = << >>
  /\ regOut = << >>
  /\ filter = NoFilter
  /\ out = EmptyMap
  /\ err = NoFailure
  /\ prev = NoInvocation

\* Matlab calls the MEX function with nrhs = Len(prhs) arguments and nlhs
\* requested outputs
Invoke ==
  /\ pc = "idle"
  /\ \E name \in NamePool, c \in MxClasses, n \in 1..MaxNDim :
       LET f == SelectFilter(name)
       IN  \E k \in 0..MaxArguments(f), o \in 0..MaxRequested(f) :
             /\ nlhs' = o
             /\ IF k < 2
                THEN prhs' = SubSeq(<< name, Image(c, n) >>, 1, k)
                ELSE \E a \in ArgumentLists(f, n, k - 2) :
                       prhs' = << name, Image(c, n) >> \o a
  /\ pc' = "mexFunction"
  /\ UNCHANGED << sel, regIn, regOut, filter, out, err, prev >>

\* mexErrMsgTxt(): the invocation ends with failure e
Raise(e) ==
  /\ err' = e
  /\ pc' = "error"

\* mexFunction: at least a filter name and an input image are needed; TYPE
\* and A are registered and the dispatch cascade is entered
MexFunction ==
  /\ pc = "mexFunction"
  /\ LET e == CheckNumberOfArguments("ArityError", 2, INT_MAX, Len(prhs))
     IN  IF e # NoFailure
         THEN Raise(e) /\ UNCHANGED regIn
         ELSE /\ regIn' = << "TYPE", "A" >>
              /\ pc' = "parseInputImageDimensionToTemplate"
              /\ UNCHANGED err
  /\ UNCHANGED << prhs, nlhs, sel, regOut, filter, out, prev >>

\* ParseInputImageDimensionToTemplate with the class of the image looked at
\* before its number of dimensions
ParseInputImageDimensionToTemplateClassFirst ==
  /\ pc = "parseInputImageDimensionToTemplate"
  /\ LET im == prhs[2]
     IN  IF PixelTypeOfClass(im.type) = ""
         THEN /\ Raise(mexErrMsgTxt("InvalidType", TypeErrorMessage(im.type)))
              /\ UNCHANGED sel
         ELSE IF im.ndim \in SupportedDimensions
         THEN /\ sel' = [sel EXCEPT !.d = im.ndim]
              /\ pc' = "parseInputImageTypeToTemplate"
              /\ UNCHANGED err
         ELSE /\ Raise(mexErrMsgTxt("RankOutOfRange",
                         "Input image can only have 2 to 4 dimensions"))
              /\ UNCHANGED sel
  /\ UNCHANGED << prhs, nlhs, regIn, regOut, filter, out, prev >>

\* parseInputImageDimensionToTemplate: switch (im.GetNumberOfDimensions())
ParseInputImageDimensionToTemplate ==
  /\ pc = "parseInputImageDimensionToTemplate"
  /\ LET im == prhs[2]
     IN  IF im.ndim \in SupportedDimensions
         THEN /\ sel' = [sel EXCEPT !.d = im.ndim]
              /\ pc' = "parseInputImageTypeToTemplate"
              /\ UNCHANGED err
         ELSE /\ Raise(mexErrMsgTxt("RankOutOfRange",
                         "Input image can only have 2 to 4 dimensions"))
              /\ UNCHANGED sel
  /\ UNCHANGED << prhs, nlhs, regIn, regOut, filter, out, prev >>

\* ParseInputImageTypeToTemplate leaving a class outside the switch to the
\* specialisations of the filter
ParseInputImageTypeToTemplateWithoutDefault ==
  /\ pc = "parseInputImageTypeToTemplate"
  /\ sel' = [sel EXCEPT !.t = PixelTypeOfClass(prhs[2].type)]
  /\ pc' = "parseOutputImageTypeToTemplate"
  /\ UNCHANGED << prhs, nlhs, regIn, regOut, filter, out, err, prev >>

\* parseInputImageTypeToTemplate<VImageDimension>: switch (im.type)
ParseInputImageTypeToTemplate ==
  /\ pc = "parseInputImageTypeToTemplate"
  /\ LET t == PixelTypeOfClass(prhs[2].type)
     IN  IF t # ""
         THEN /\ sel' = [sel EXCEPT !.t = t]
              /\ pc' = "parseOutputImageTypeToTemplate"
              /\ UNCHANGED err
         ELSE /\ Raise(mexErrMsgTxt("InvalidType",
                         TypeErrorMessage(prhs[2].type)))
              /\ UNCHANGED sel
  /\ UNCHANGED << prhs, nlhs, regIn, regOut, filter, out, prev >>

\* parseOutputImageTypeToTemplate<TPixelIn, VImageDimension>: the filter
\* name is read and the FilterWrapper of the matching branch is selected
ParseOutputImageTypeToTemplate ==
  /\ pc = "parseOutputImageTypeToTemplate"
  /\ LET filterName == prhs[1]
         f == SelectFilter(filterName)
     IN  IF f # ""
         THEN /\ sel' = FilterWrapper(sel.t, sel.d, f)
              /\ pc' = "FilterWrapper"
              /\ UNCHANGED err
         ELSE /\ Raise(mexErrMsgTxt("UnknownFilter", "Invalid filter type"))
              /\ UNCHANGED sel
  /\ UNCHANGED << prhs, nlhs, regIn, regOut, filter, out, prev >>

\* FilterWrapperStub with the numbers of arguments and outputs of the filter
\* checked before the error is raised
FilterWrapperStubAfterCountChecks ==
  /\ pc = "FilterWrapper"
  /\ sel.body = "stub"
  /\ LET ein  == CheckNumberOfArguments("ArityError",
                   MinNumberOfArguments(sel.f), InputIndexType_MAX(sel.f),
                   Len(prhs))
         eout == CheckNumberOfArguments("OutputArityError",
                   0, OutputIndexType_MAX(sel.f), nlhs)
     IN  IF ein # NoFailure THEN Raise(ein)
         ELSE IF eout # NoFailure THEN Raise(eout)
         ELSE Raise(mexErrMsgTxt("UnsupportedCombination", sel.msg))
  /\ UNCHANGED << prhs, nlhs, sel, regIn, regOut, filter, out, prev >>

\* constructor of a specialisation that only raises an error
FilterWrapperStub ==
  /\ pc = "FilterWrapper"
  /\ sel.body = "stub"
  /\ Raise(mexErrMsgTxt("UnsupportedCombination", sel.msg))
  /\ UNCHANGED << prhs, nlhs, sel, regIn, regOut, filter, out, prev >>

\* constructor of a real specialisation: check number of input and output
\* arguments
FilterWrapperCheckArguments ==
  /\ pc = "FilterWrapper"
  /\ sel.body = "real"
  /\ LET ein  == CheckNumberOfArguments("ArityError",
                   MinNumberOfArguments(sel.f), InputIndexType_MAX(sel.f),
                   Len(prhs))
         eout == CheckNumberOfArguments("OutputArityError",
                   0, OutputIndexType_MAX(sel.f), nlhs)
     IN  IF ein # NoFailure THEN Raise(ein)
         ELSE IF eout # NoFailure THEN Raise(eout)
         ELSE pc' = "register" /\ UNCHANGED err
  /\ UNCHANGED << prhs, nlhs, sel, regIn, regOut, filter, out, prev >>

\* ... register the inputs exclusive to the filter and its outputs
FilterWrapperRegister ==
  /\ pc = "register"
  /\ regIn' = regIn \o [i \in 1..Len(Parameters(sel.f)) |->
                          Parameters(sel.f)[i].name]
  /\ regOut' = OutputIndexType(sel.f)
  /\ pc' = "new"
  /\ UNCHANGED << prhs, nlhs, sel, filter, out, err, prev >>

\* FilterWrapperNew with the first output grafted as soon as the filter
\* exists
FilterWrapperNewAndGraft ==
  /\ pc = "new"
  /\ filter' = [f |-> sel.f, par |-> EmptyMap, updated |-> FALSE]
  /\ out' = (regOut[1] :> [type |-> sel.t, size |-> prhs[2].size])
  /\ pc' = "read"
  /\ UNCHANGED << prhs, nlhs, sel, regIn, regOut, err, prev >>

\* ... instantiate the ITK filter and connect the input image
FilterWrapperNew ==
  /\ pc = "new"
  /\ filter' = [f |-> sel.f, par |-> EmptyMap, updated |-> FALSE]
  /\ pc' = "read"
  /\ UNCHANGED << prhs, nlhs, sel, regIn, regOut, out, err, prev >>

\* ... read the parameters and pass them to the filter
FilterWrapperReadParameters ==
  /\ pc = "read"
  /\ LET r == ReadParameters(sel.t, sel.d, sel.f, prhs)
     IN  IF r.ok
         THEN /\ filter' = [filter EXCEPT !.par = SetParameters(sel.f, r.par)]
              /\ pc' = "graft"
              /\ UNCHANGED err
         ELSE /\ Raise(Failure("CoercionError", "", 0, 0, 0, r.bad))
              /\ UNCHANGED filter
  /\ UNCHANGED << prhs, nlhs, sel, regIn, regOut, out, prev >>

\* the outputs of the selected filter that are produced at stage when
\* ("graft" or "copy"), as name -> [type, size]
Produced(when) ==
  LET os   == Outputs(sel.f)
      idx  == { i \in 1..Len(os) :
                  os[i].when = when /\ IsRequested(i - 1, nlhs) }
      type(o) == IF o.type = "TPixelIn" THEN sel.t ELSE o.type
  IN  [name \in { os[i].name : i \in idx } |->
         LET o == os[CHOOSE i \in idx : os[i].name = name]
         IN  [type |-> type(o), size |-> OutputSize(prhs[2].size, o.vector)]]

\* graft with the outputs that are copied after Update() allocated as well
FilterWrapperGraftAndAllocateCopies ==
  /\ pc = "graft"
  /\ out' = out @@ Produced("graft") @@ Produced("copy")
  /\ pc' = "update"
  /\ UNCHANGED << prhs, nlhs, sel, regIn, regOut, filter, err, prev >>

\* ... graft ITK filter outputs onto Matlab outputs
FilterWrapperGraft ==
  /\ pc = "graft"
  /\ out' = out @@ Produced("graft")
  /\ pc' = "update"
  /\ UNCHANGED << prhs, nlhs, sel, regIn, regOut, filter, err, prev >>

\* ... run the filter: filter->Update() returns, or the algorithm raises
FilterWrapperUpdate ==
  /\ pc = "update"
  /\ \/ /\ filter' = [filter EXCEPT !.updated = TRUE]
        /\ pc' = "copy"
        /\ UNCHANGED err
     \/ /\ Raise(mexErrMsgTxt("AlgorithmFailure", ""))
        /\ UNCHANGED filter
  /\ UNCHANGED << prhs, nlhs, sel, regIn, regOut, out, prev >>

\* ... copy ITK filter outputs to Matlab outputs; the constructor and the
\* cascade return
FilterWrapperCopy ==
  /\ pc = "copy"
  /\ out' = out @@ Produced("copy")
  /\ pc' = "done"
  /\ UNCHANGED << prhs, nlhs, sel, regIn, regOut, filter, err, prev >>

\* Return with the outputs of the invocation left allocated for the next one
ReturnKeepingOutputs ==
  /\ pc \in { "done", "error" }
  /\ pc' = "idle"
  /\ prhs' = << >>
  /\ nlhs' = 0
  /\ sel' = NoSelection
  /\ regIn' = << >>
  /\ regOut' = << >>
  /\ filter' = NoFilter
  /\ err' = NoFailure
  /\ UNCHANGED << out, prev >>

\* the MEX function has returned to Matlab; nothing of the invocation is
\* kept
Return ==
  /\ pc \in { "done", "error" }
  /\ pc' = "idle"
  /\ prhs' = << >>
  /\ nlhs' = 0
  /\ sel' = NoSelection
  /\ regIn' = << >>
  /\ regOut' = << >>
  /\ filter' = NoFilter
  /\ out' = EmptyMap
  /\ err' = NoFailure
  /\ UNCHANGED prev

Next ==
  \/ Invoke
  \/ MexFunction
  \/ ParseInputImageDimensionToTemplate
  \/ ParseInputImageTypeToTemplate
  \/ ParseOutputImageTypeToTemplate
  \/ FilterWrapperStub
  \/ FilterWrapperCheckArguments
  \/ FilterWrapperRegister
  \/ FilterWrapperNew
  \/ FilterWrapperReadParameters
  \/ FilterWrapperGraft
  \/ FilterWrapperUpdate
  \/ FilterWrapperCopy
  \/ Return

Spec == Init /\ [][Next]_vars

(***************************************************************************)
(* Repeated invocations.  Matlab may call the MEX function any number of   *)
(* times.  One finished invocation is recorded in prev, other invocations  *)
(* may follow it, and it is then repeated with the same nrhs, prhs and     *)
(* nlhs.  prev is only written here and is never read by mexFunction.      *)
(***************************************************************************)
\* an invocation made while nothing is recorded yet
InvokeFirst ==
  /\ prev = NoInvocation
  /\ Invoke

\* record the invocation that has just ended, once
Remember ==
  /\ pc \in { "done", "error" }
  /\ prev = NoInvocation
  /\ prev' = [run |-> "first", between |-> FALSE, prhs |-> prhs,
              nlhs |-> nlhs, sel |-> sel, par |-> filter.par, out |-> out,
              err |-> err, pc |-> pc]
  /\ UNCHANGED << pc, prhs, nlhs, sel, regIn, regOut, filter, out, err >>

\* other invocations made after the recorded one: one that runs a filter
\* and one that fails in the dispatch
BetweenPool ==
  { [prhs |-> << "bwdilate", Image("mxUINT8_CLASS", 2) >>, nlhs |-> 1],
    [prhs |-> << "Canny", Image("mxDOUBLE_CLASS", 3) >>, nlhs |-> 0] }

InvokeBetween ==
  /\ pc = "idle"
  /\ prev # NoInvocation
  /\ prev.run \in { "first", "between" }
  /\ \E b \in BetweenPool :
       /\ prhs' = b.prhs
       /\ nlhs' = b.nlhs
  /\ pc' = "mexFunction"
  /\ prev' = [prev EXCEPT !.run = "between", !.between = TRUE]
  /\ UNCHANGED << sel, regIn, regOut, filter, out, err >>

\* the recorded invocation is made again
InvokeAgain ==
  /\ pc = "idle"
  /\ prev # NoInvocation
  /\ prev.run \in { "first", "between" }
  /\ prhs' = prev.prhs
  /\ nlhs' = prev.nlhs
  /\ pc' = "mexFunction"
  /\ prev' = [prev EXCEPT !.run = "again"]
  /\ UNCHANGED << sel, regIn, regOut, filter, out, err >>

NextRepeat ==
  \/ InvokeFirst
  \/ Remember
  \/ InvokeBetween
  \/ InvokeAgain
  \/ MexFunction
  \/ ParseInputImageDimensionToTemplate
  \/ ParseInputImageTypeToTemplate
  \/ ParseOutputImageTypeToTemplate
  \/ FilterWrapperStub
  \/ FilterWrapperCheckArguments
  \/ FilterWrapperRegister
  \/ FilterWrapperNew
  \/ FilterWrapperReadParameters
  \/ FilterWrapperGraft
  \/ FilterWrapperUpdate
  \/ FilterWrapperCopy
  \/ Return

SpecRepeat == Init /\ [][NextRepeat]_vars

(***************************************************************************)
(* Properties.  What the documentation (the header comment of the file and *)
(* the design notes) says about an invocation, stated over the arguments   *)
(* of the call and independently of the dispatch code.                     *)
(***************************************************************************)
\* the call has a filter name and an image
HasImage == pc # "idle" /\ Len(prhs) >= 2

Name == prhs[1]

Im == prhs[2]

\* the documented classes of A and the element type each stands for
DocTypes ==
  << << "mxLOGICAL_CLASS", "mxLogical" >>, << "mxDOUBLE_CLASS", "double" >>,
     << "mxSINGLE_CLASS", "float" >>, << "mxINT8_CLASS", "int8_T" >>,
     << "mxUINT8_CLASS", "uint8_T" >>, << "mxINT16_CLASS", "int16_T" >>,
     << "mxUINT16_CLASS", "uint16_T" >>, << "mxINT32_CLASS", "int32_T" >>,
     << "mxINT64_CLASS", "int64_T" >> >>

DocClasses == { DocTypes[i][1] : i \in 1..Len(DocTypes) }

DocTypeOf(c) == DocTypes[CHOOSE i \in 1..Len(DocTypes) : DocTypes[i][1] = c][2]

DocRanks == { 2, 3, 4 }

\* the documented filters: short name, class name
DocFilters ==
  { << "skel", "BinaryThinningImageFilter3D" >>,
    << "dandist", "DanielssonDistanceMapImageFilter" >>,
    << "signdandist", "SignedDanielssonDistanceMapImageFilter" >>,
    << "maudist", "SignedMaurerDistanceMapImageFilter" >>,
    << "appsigndist", "ApproximateSignedDistanceMapImageFilter" >>,
    << "bwdilate", "BinaryDilateImageFilter" >>,
    << "bwerode", "BinaryErodeImageFilter" >>,
    << "advess", "AnisotropicDiffusionVesselEnhancementImageFilter" >>,
    << "hesves",
       "MultiScaleHessianSmoothed3DToVesselnessMeasureImageFilter" >>,
    << "median", "MedianImageFilter" >>,
    << "mrf", "MRFImageFilter" >>,
    << "voteholefill", "VotingBinaryIterativeHoleFillingImageFilter" >>,
    << "canny", "CannyEdgeDetectionImageFilter" >> }

DocNames == { e[1] : e \in DocFilters } \cup { e[2] : e \in DocFilters }

\* the documented filter a name stands for, by its short name ("" when the
\* name is no filter's)
DocFilterOf(name) ==
  IF name \in DocNames
  THEN (CHOOSE e \in DocFilters : name \in { e[1], e[2] })[1]
  ELSE ""

\* the (rank, element type) cells a documented filter runs on
DocSupports(short, d, t) ==
  CASE short = "canny" -> t \in { "float", "double" }
    [] short \in { "skel", "hesves", "advess" } -> d = 3
    [] short = "maudist" -> t # "mxLogical"
    [] OTHER -> TRUE

\* the call names a documented filter and passes an image of a documented
\* rank and class
OnCell == HasImage /\ Im.ndim \in DocRanks /\ Im.type \in DocClasses
          /\ Name \in DocNames

OnSupportedCell ==
  OnCell /\ DocSupports(DocFilterOf(Name), Im.ndim, DocTypeOf(Im.type))

OnUnsupportedCell ==
  OnCell /\ ~DocSupports(DocFilterOf(Name), Im.ndim, DocTypeOf(Im.type))

\* the positions of the dispatch cascade, before the body of any real
\* specialisation
DispatchStages ==
  { "mexFunction", "parseInputImageDimensionToTemplate",
    "parseInputImageTypeToTemplate", "parseOutputImageTypeToTemplate",
    "FilterWrapper" }

\* nothing of a filter exists: no ITK filter object, no filter parameter or
\* output registered, no output allocated
NothingBound ==
  /\ filter = NoFilter
  /\ out = EmptyMap
  /\ regOut = << >>
  /\ \A i \in 1..Len(regIn) : regIn[i] \in { "TYPE", "A" }

\* the invocation has failed with a failure of this kind
FailedWith(kind) == pc = "error" /\ err.kind = kind

\* the invocation cannot end other than in a failure of this kind, and has
\* bound nothing
OnlyFails(kind) ==
  /\ pc \in DispatchStages \cup { "error" }
  /\ pc = "error" => err.kind = kind
  /\ NothingBound

\* the short name of the filter whose specialisation has been selected
SelectedShort ==
  IF sel.f = "" THEN ""
  ELSE FilterNames[CHOOSE i \in 1..Len(FilterNames) :
                     FilterNames[i][3] = sel.f][1]

\* C1: on a (rank, element type) cell the named filter does not support,
\* the invocation fails with the unsupported-combination failure, and up to
\* then no ITK filter is constructed, no filter parameter is registered or
\* read and no output is registered or allocated.
C1_UnsupportedCellFailsEarly ==
  OnUnsupportedCell => OnlyFails("UnsupportedCombination")

C1_Witness ==
  /\ OnUnsupportedCell
  /\ FailedWith("UnsupportedCombination")
  /\ Name = "hesves" /\ Im.ndim = 4
  /\ Len(prhs) > 2

\* C2: with a supported rank and element type, the filter selected is F
\* exactly when the name is F's short name or F's class name, compared
\* case-sensitively; the 26 names are distinct and stand for 13 filters;
\* any other string fails with the unknown-filter failure and runs nothing.
C2_NameResolution ==
  /\ Cardinality(DocNames) = 26
  /\ Cardinality(DocFilters) = 13
  /\ Cardinality({ e[1] : e \in DocFilters }) = 13
  /\ (HasImage /\ Im.ndim \in DocRanks /\ Im.type \in DocClasses) =>
       /\ Name \in DocNames =>
            /\ ~FailedWith("UnknownFilter")
            /\ pc \notin DispatchStages \ { "FilterWrapper" } /\ pc # "error"
                 => SelectedShort = DocFilterOf(Name)
            /\ pc = "FilterWrapper" => SelectedShort = DocFilterOf(Name)
       /\ Name \notin DocNames => OnlyFails("UnknownFilter") /\ sel.f = ""

C2_Witness ==
  /\ FailedWith("UnknownFilter")
  /\ Name = "Canny"
  /\ Im.ndim = 3 /\ Im.type = "mxDOUBLE_CLASS"

\* C3: skel, hesves and advess run only on 3D images: for each of the 9
\* element types an image of rank 2 or 4 is rejected with "only accepts 3D
\* input images", and an image of rank 3 reaches the real specialisation.
C3_Only3D ==
  (OnCell /\ DocFilterOf(Name) \in { "skel", "hesves", "advess" }) =>
     IF Im.ndim = 3
     THEN /\ ~FailedWith("UnsupportedCombination")
          /\ pc \notin DispatchStages \ { "FilterWrapper" } =>
               sel.body = "real" /\ SelectedShort = DocFilterOf(Name)
     ELSE /\ OnlyFails("UnsupportedCombination")
          /\ pc = "error" =>
               err.msg \in
                 { "BinaryThinningImageFilter3D only accepts 3D input images",
                   "MultiScaleHessianSmoothed3DToVesselnessMeasureImageFilter only accepts 3D input images",
                   "AnisotropicDiffusionVesselEnhancementImageFilter only accepts 3D input images" }

C3_Witness ==
  /\ FailedWith("UnsupportedCombination")
  /\ Name = "skel" /\ Im.ndim = 4 /\ Im.type = "mxINT64_CLASS"
  /\ err.msg = "BinaryThinningImageFilter3D only accepts 3D input images"

\* C4: canny runs exactly when the element type is single or double, at
\* every rank 2, 3, 4; for the other seven element types it fails with
\* "only accepts input images with floating type".
C4_CannyFloatingOnly ==
  (OnCell /\ DocFilterOf(Name) = "canny") =>
     IF Im.type \in { "mxSINGLE_CLASS", "mxDOUBLE_CLASS" }
     THEN /\ ~FailedWith("UnsupportedCombination")
          /\ pc \notin DispatchStages \ { "FilterWrapper" } =>
               sel.body = "real" /\ SelectedShort = "canny"
     ELSE /\ OnlyFails("UnsupportedCombination")
          /\ pc = "error" =>
               err.msg = "CannyEdgeDetectionImageFilter only accepts input images with floating type (double or single)"

C4_Witness ==
  /\ FailedWith("UnsupportedCombination")
  /\ Name = "canny" /\ Im.ndim = 2 /\ Im.type = "mxINT64_CLASS"

\* C5: an image whose number of dimensions is not 2, 3 or 4 fails with the
\* rank failure whatever its class and whatever the filter name, and runs
\* no filter.
C5_RankOutOfRange ==
  (HasImage /\ Im.ndim \notin DocRanks) =>
     /\ OnlyFails("RankOutOfRange")
     /\ sel = NoSelection

C5_Witness ==
  /\ FailedWith("RankOutOfRange")
  /\ Im.ndim = 1
  /\ Im.type = "mxDOUBLE_CLASS"
  /\ Name = "median"

C7_ResolutionOrder ==
  /\ (HasImage /\ Im.ndim \notin DocRanks) =>
       (pc = "error" => err.kind = "RankOutOfRange")
  /\ (HasImage /\ Im.ndim \in DocRanks /\ Im.type \notin DocClasses) =>
       (pc = "error" => err.kind = "InvalidType")
  /\ (pc = "parseInputImageTypeToTemplate" \/ sel.t # "")
       => sel.d = Im.ndim /\ Im.ndim \in DocRanks
  /\ (pc = "parseOutputImageTypeToTemplate" \/ sel.f # ""
        \/ FailedWith("UnknownFilter"))
       => /\ Im.ndim \in DocRanks /\ sel.d = Im.ndim
          /\ Im.type \in DocClasses /\ sel.t = DocTypeOf(Im.type)

C7_Witness ==
  /\ FailedWith("RankOutOfRange")
  /\ Im.ndim = 5
  /\ Im.type = "mxUINT64_CLASS"
  /\ Name = "skeleton"

\* the documented minimum and maximum number of arguments of each filter,
\* TYPE and A counted
DocMinArguments(short) == IF short = "mrf" THEN 3 ELSE 2

DocMaxArguments(short) ==
  CASE short = "canny" -> 6
    [] short = "voteholefill" -> 7
    [] short = "appsigndist" -> 2
    [] short = "median" -> 3
    [] short = "hesves" -> 6
    [] short = "advess" -> 11
    [] short = "skel" -> 2
    [] short = "signdandist" -> 2
    [] short = "dandist" -> 2
    [] short = "maudist" -> 2
    [] short = "bwdilate" -> 4
    [] short = "bwerode" -> 4
    [] short = "mrf" -> 7

\* C8 as stated: for every filter, a call with fewer arguments than the
\* filter's minimum (3 for mrf, 2 for the others), a call with the filter
\* name alone included, fails with an arity failure whose minimum is the
\* filter's.
C8_ArityMinimumOfFilter ==
  (pc # "idle" /\ Len(prhs) >= 1 /\ Name \in DocNames
     /\ Len(prhs) < DocMinArguments(DocFilterOf(Name))) =>
       (pc = "error" =>
          /\ err.kind = "ArityError"
          /\ err.min = DocMinArguments(DocFilterOf(Name)))

\* C8, amended: a call with fewer than two arguments fails, before the
\* filter name is looked at, with an arity failure whose minimum is 2
\* whatever the filter; a call with two arguments that names mrf on an
\* image of supported rank and element type fails with an arity failure
\* whose minimum is 3.  Nothing is bound in either case.
C8_ArityMinimum ==
  /\ (pc # "idle" /\ Len(prhs) < 2) =>
       /\ pc \in { "mexFunction", "error" }
       /\ OnlyFails("ArityError")
       /\ regIn = << >>
       /\ pc = "error" => err.min = 2 /\ err.actual = Len(prhs)
  /\ (OnSupportedCell /\ Len(prhs) < DocMinArguments(DocFilterOf(Name))) =>
       /\ OnlyFails("ArityError")
       /\ pc = "error" =>
            /\ err.min = DocMinArguments(DocFilterOf(Name))
            /\ err.actual = Len(prhs)

C8_Witness ==
  /\ FailedWith("ArityError")
  /\ Len(prhs) = 2 /\ Name = "mrf"
  /\ err.min = 3 /\ err.actual = 2

\* C9: on a supported cell, a call with more arguments than the filter's
\* documented maximum fails with an arity failure before anything of the
\* filter is bound or run; a call with a number of arguments between the
\* minimum and the maximum does not fail with an arity failure.
C9_ArityMaximum ==
  OnSupportedCell =>
    LET short == DocFilterOf(Name)
    IN  /\ Len(prhs) > DocMaxArguments(short) =>
             /\ OnlyFails("ArityError")
             /\ pc = "error" =>
                  err.max = DocMaxArguments(short) /\ err.actual = Len(prhs)
        /\ (Len(prhs) >= DocMinArguments(short)
              /\ Len(prhs) <= DocMaxArguments(short)) =>
             ~FailedWith("ArityError")

C9_Witness ==
  /\ FailedWith("ArityError")
  /\ OnSupportedCell
  /\ Name = "advess" /\ Len(prhs) = 12
  /\ err.max = 11

\* the parameters of the Canny filter have been read and set
CannyParametersSet ==
  /\ filter.f = "nCannyEdgeDetectionImageFilter"
  /\ "LOWTHR" \in DOMAIN filter.par

\* LOWTHR is the 5th argument, UPPTHR the 4th
LowerThresholdSupplied == Len(prhs) >= 5

UpperThresholdSupplied == Len(prhs) >= 4

\* the largest value of a floating element type
DocLargest(t) ==
  [b |-> IF t = "float" THEN "FLT_MAX" ELSE "DBL_MAX", m |-> 1, e |-> 0]

Twice(x) == IF x.m = 0 THEN x ELSE [x EXCEPT !.e = @ + 1]

\* half of x is a value of floating type t
HalfIsRepresentable(t, x) ==
  x.b # "one" \/ x.m = 0 \/ x.e - 1 >= (IF t = "float" THEN 0 - 149 ELSE 0 - 1074)

\* C10 as stated: whenever LOWTHR is not supplied, the lower threshold is
\* exactly half the upper threshold, which is the caller's UPPTHR if
\* supplied and the largest value of the element type otherwise.
C10_LowerIsExactlyHalfUpper ==
  (CannyParametersSet /\ ~LowerThresholdSupplied) =>
     Twice(filter.par["LOWTHR"]) = filter.par["UPPTHR"]

\* C10, amended: whenever LOWTHR is not supplied, the lower threshold is
\* the upper threshold divided by two and rounded to the element type:
\* exactly half of it whenever that half is a value of the element type
\* (as it is for the default upper threshold, the largest value of the
\* element type), and otherwise, for an upper threshold that is an odd
\* multiple of the smallest positive value of the type, the neighbouring
\* even multiple of that value.
C10_LowerIsHalfUpperRounded ==
  (CannyParametersSet /\ ~LowerThresholdSupplied) =>
     LET upper == filter.par["UPPTHR"]
         lower == filter.par["LOWTHR"]
     IN  /\ ~UpperThresholdSupplied => upper = DocLargest(sel.t)
         /\ IF HalfIsRepresentable(sel.t, upper)
            THEN Twice(lower) = upper
            ELSE \E q \in { (upper.m - 1) \div 2, (upper.m + 1) \div 2 } :
                   /\ q % 2 = 0
                   /\ lower = Lit(q, upper.e)

C10_Witness ==
  /\ CannyParametersSet
  /\ pc = "done"
  /\ Len(prhs) = 4
  /\ sel.t = "float"
  /\ filter.par["UPPTHR"] = Lit(3, 0)
  /\ filter.par["LOWTHR"] = Lit(3, 0 - 1)

\* the element types by kind
DocIntegerTypes ==
  { "int8_T", "uint8_T", "int16_T", "uint16_T", "int32_T", "int64_T" }

DocSignedIntegerTypes == { "int8_T", "int16_T", "int32_T", "int64_T" }

DocFloatingTypes == { "float", "double" }

\* the documented type of the offsets W
DocOffsetType == "int64_T"

\* the call names one of the Danielsson distance filters on a supported cell
OnDanielsson ==
  OnSupportedCell /\ DocFilterOf(Name) \in { "dandist", "signdandist" }

\* the constructor of the selected filter has passed the point where the
\* outputs grafted before the filter runs exist
Grafted == pc \in { "update", "copy", "done" }

\* C11: for dandist and signdandist on an integer-typed input of shape S and
\* rank r, the distance map B has a floating-point element type and shape
\* S, and the offsets W have shape (r, S...) and one signed integer element
\* type whatever the input type.
C11_DistanceOutputs ==
  (OnDanielsson /\ DocTypeOf(Im.type) \in DocIntegerTypes) =>
    /\ Grafted => "B" \in DOMAIN out /\ (nlhs >= 3 => "W" \in DOMAIN out)
    /\ "B" \in DOMAIN out =>
         /\ out["B"].type \in DocFloatingTypes
         /\ out["B"].size = Im.size
    /\ "W" \in DOMAIN out =>
         /\ out["W"].type \in DocSignedIntegerTypes
         /\ out["W"].type = DocOffsetType
         /\ out["W"].size = << Im.ndim >> \o Im.size

C11_Witness ==
  /\ OnDanielsson
  /\ Name = "signdandist"
  /\ Im.type = "mxINT16_CLASS" /\ Im.ndim = 3
  /\ nlhs = 3 /\ pc = "done"
  /\ out["B"].type = "float" /\ out["B"].size = << 2, 3, 4 >>
  /\ out["W"].size = << 3, 2, 3, 4 >>

\* C12: for dandist and signdandist, for every input element type and rank,
\* the distance map B has element type float (single precision) and the
\* size of A.
C12_DistanceMapIsFloat ==
  (OnDanielsson /\ "B" \in DOMAIN out) =>
    /\ out["B"].type = "float"
    /\ out["B"].size = Im.size

\* the documented element type of an output, for an input of element type t
DocOutputType(short, name, t) ==
  CASE short \in { "maudist", "appsigndist" } -> "float"
    [] short = "hesves" -> "double"
    [] short = "mrf" -> "uint8_T"
    [] OTHER -> t

\* the outputs the table of element types covers: every output but the
\* distance map and the offsets of dandist and signdandist
DocTabled(short, name) ==
  CASE short \in { "dandist", "signdandist" } -> name = "V"
    [] short = "canny" -> name \in { "B", "C" }
    [] OTHER -> name = "B"

\* C13: the element type of every output depends on the filter, the output
\* and the input element type only, and is the documented one: the input's
\* for skel, bwdilate, bwerode, advess, median, voteholefill, canny (B and
\* C) and the Voronoi map V of dandist and signdandist; single for maudist
\* and appsigndist; double for hesves; uint8 for mrf.  Each of these outputs
\* has the input's shape.
C13_OutputTypes ==
  OnSupportedCell =>
    LET short == DocFilterOf(Name)
    IN  /\ pc = "done" => "B" \in DOMAIN out
        /\ \A name \in DOMAIN out :
             DocTabled(short, name) =>
               /\ out[name].type =
                    DocOutputType(short, name, DocTypeOf(Im.type))
               /\ out[name].size = Im.size
        /\ \A name \in DOMAIN out :
             DocTabled(short, name) \/ short \in { "dandist", "signdandist" }

C13_Witness ==
  /\ OnSupportedCell
  /\ Name = "hesves" /\ Im.type = "mxINT8_CLASS"
  /\ pc = "done"
  /\ out["B"].type = "double" /\ out["B"].size = Im.size

\* the MRF wrapper has read its parameters and rescaled the weights
MRFParametersSet ==
  /\ filter.f = "nMRFImageFilter"
  /\ "MRFNeighborhoodWeight" \in DOMAIN filter.par

\* the integer a value of the argument lists stands for (the centroids and
\* weights tried are integers)
IntegerOf(x) == x.m * Power(2, x.e)

\* the sum of the first k elements of a vector of integers
RECURSIVE DocSum(_, _)
DocSum(v, k) == IF k = 0 THEN 0 ELSE DocSum(v, k - 1) + IntegerOf(v[k])

\* the sum of the first k rescaled weights
RECURSIVE DocSumOfRescaled(_, _)
DocSumOfRescaled(r, k) ==
  IF k = 0 THEN Quotient(0, 1) ELSE Plus(DocSumOfRescaled(r, k - 1), r[k])

\* the rescaled weights r are the weights w times mean / (2 * sum of w),
\* mean being the arithmetic mean of the centroids mu; they sum to mean / 2
\* and a zero weight stays zero.  Stated without division: mean is
\* DocSum(mu) / Len(mu).
DocRescaled(r, w, mu) ==
  LET n == Len(mu)
      S == DocSum(mu, n)
      T == DocSum(w, Len(w))
      R == DocSumOfRescaled(r, Len(r))
  IN  /\ Len(r) = Len(w)
      /\ \A i \in 1..Len(w) :
           /\ r[i].den # 0
           /\ r[i].num * (2 * T * n) = r[i].den * (IntegerOf(w[i]) * S)
           /\ IntegerOf(w[i]) = 0 => r[i] = [num |-> 0, den |-> 1]
      /\ R.den # 0
      /\ R.num * (2 * n) = R.den * S

\* C14 as stated: for mrf, every weight w is replaced by
\* w * meanCentroid / (2 * sumOfWeights), meanCentroid being the mean of the
\* supplied centroids MU; the rescaled weights sum to meanCentroid / 2 and a
\* zero weight stays zero.
C14_WeightsRescaledBySuppliedMean ==
  MRFParametersSet =>
    DocRescaled(filter.par["MRFNeighborhoodWeight"], filter.par["WEIGHTS"],
                prhs[3].data)

\* the weights [1,1,1,1,0,1,1,1,1] and the centroids [10, 50] of the example
DocExampleWeights == [i \in 1..9 |-> IF i = 5 THEN Lit(0, 0) ELSE Lit(1, 0)]

DocExampleCentroids == << Lit(10, 0), Lit(50, 0) >>

\* C14, amended: for mrf, with the centroids MU as converted to the element
\* type of the image, every weight w is replaced by
\* w * meanCentroid / (2 * sumOfWeights) whenever MU is not empty and the
\* weights do not sum to zero; the rescaled weights then sum to
\* meanCentroid / 2 and a zero weight stays zero, and for the weights
\* [1,1,1,1,0,1,1,1,1] and the centroids [10, 50] every weight but the
\* central one becomes 30/16 and the sum is 15.  With an empty MU or weights
\* that sum to zero no rescaled weight is a finite number.
C14_WeightsRescaled ==
  MRFParametersSet =>
    LET r  == filter.par["MRFNeighborhoodWeight"]
        w  == filter.par["WEIGHTS"]
        mu == filter.par["MU"]
    IN  /\ IF Len(mu) >= 1 /\ DocSum(w, Len(w)) # 0
           THEN DocRescaled(r, w, mu)
           ELSE \A i \in 1..Len(r) : r[i].den = 0
        /\ (w = DocExampleWeights /\ mu = DocExampleCentroids) =>
             /\ \A i \in 1..9 : i # 5 => r[i] = [num |-> 15, den |-> 8]
             /\ r[5] = [num |-> 0, den |-> 1]
             /\ DocSumOfRescaled(r, 9) = [num |-> 15, den |-> 1]

C14_Witness ==
  /\ MRFParametersSet
  /\ pc = "done"
  /\ filter.par["WEIGHTS"] = DocExampleWeights
  /\ filter.par["MU"] = DocExampleCentroids
  /\ filter.par["MRFNeighborhoodWeight"][1] = [num |-> 15, den |-> 8]
  /\ filter.par["MRFNeighborhoodWeight"][5] = [num |-> 0, den |-> 1]

\* the advess wrapper has read its parameters
AdvessParametersSet ==
  /\ filter.f = "nAnisotropicDiffusionVesselEnhancementImageFilter"
  /\ "NUMITERATIONS" \in DOMAIN filter.par

\* C15: for advess, when NUMITERATIONS is not supplied (the call stops
\* before the position of NUMITERATIONS, the 4th parameter after A in the
\* documented signature), the number of iterations passed to the algorithm
\* is 10.
C15_DefaultNumberOfIterations ==
  (AdvessParametersSet /\ Len(prhs) <= 5) =>
     filter.par["NUMITERATIONS"] = Lit(10, 0)

\* a parameter: name and the type its value is converted to
DocP(name, ctype) == [name |-> name, ctype |-> ctype]

\* the parameters of advess after A as the signature in the header lists
\* them
DocAdvessSignature ==
  << DocP("SIGMAMIN", "double"), DocP("SIGMAMAX", "double"),
     DocP("NUMSIGMASTEPS", "int"), DocP("NUMITERATIONS", "int"),
     DocP("WSTRENGTH", "double"), DocP("SENSITIVITY", "double"),
     DocP("TIMESTEP", "double"), DocP("EPSILON", "double") >>

\* ... and as the descriptions under the signature list them
DocAdvessDescriptions ==
  << DocP("SIGMAMIN", "double"), DocP("SIGMAMAX", "double"),
     DocP("NUMSIGMASTEPS", "int"), DocP("ISSIGMASTEPLOG", "bool"),
     DocP("NUMITERATIONS", "int"), DocP("WSTRENGTH", "double"),
     DocP("SENSITIVITY", "double"), DocP("TIMESTEP", "double"),
     DocP("EPSILON", "double") >>

\* the value the caller supplied at the i-th position after A, converted
DocSupplied(i, ctype) == StaticCast(ctype, prhs[i + 2].data[1])

\* advess binds its positional arguments in this order and accepts no more
DocAdvessBinds(order) ==
  (OnSupportedCell /\ DocFilterOf(Name) = "advess") =>
    /\ Len(prhs) > Len(order) + 2 => OnlyFails("ArityError")
    /\ Len(prhs) <= Len(order) + 2 => ~FailedWith("ArityError")
    /\ AdvessParametersSet =>
         \A i \in 1..Len(order) :
           Len(prhs) >= i + 2 =>
             filter.par[order[i].name] = DocSupplied(i, order[i].ctype)

DocVesselness ==
  << [name |-> "SIGMAMIN", ctype |-> "double", def |-> Dec("0.2")],
     [name |-> "SIGMAMAX", ctype |-> "double", def |-> Lit(2, 0)],
     [name |-> "NUMSIGMASTEPS", ctype |-> "int", def |-> Lit(10, 0)],
     [name |-> "ISSIGMASTEPLOG", ctype |-> "bool", def |-> Lit(1, 0)] >>

\* the hesves or advess wrapper has read its parameters
VesselnessParametersSet ==
  /\ filter.f \in
       { "nMultiScaleHessianSmoothed3DToVesselnessMeasureImageFilter",
         "nAnisotropicDiffusionVesselEnhancementImageFilter" }
  /\ "SIGMAMIN" \in DOMAIN filter.par

MorphologyParametersSet ==
  /\ filter.f \in { "nBinaryDilateImageFilter", "nBinaryErodeImageFilter" }
  /\ "FOREGROUND" \in DOMAIN filter.par

\* floor of a non-negative value m * 2^e
DocFloor(x) ==
  IF x.e >= 0 THEN x.m * Power(2, x.e) ELSE x.m \div Power(2, 0 - x.e)

C19_MRFDefaults ==
  (MRFParametersSet /\ Len(prhs) = 3) =>
    LET n == Power(3, Im.ndim)
    IN  /\ Len(filter.par["WEIGHTS"]) = n
        /\ \A i \in 0..(n - 1) :
             filter.par["WEIGHTS"][i + 1] =
               IF i = (n - 1) \div 2 THEN Lit(0, 0) ELSE Lit(1, 0)
        /\ filter.par["neighHalfSize"] = [i \in 1..Im.ndim |-> 1]
        /\ filter.par["SMOOTH"] = Dec("1e-7")
        /\ filter.par["NITER"] = Lit(100, 0)
        /\ filter.par["TOL"] = Dec("1e-7")
        /\ filter.par["NumberOfClasses"] = Len(prhs[3].data)

C19_Witness ==
  /\ MRFParametersSet
  /\ Len(prhs) = 3
  /\ pc = "done"
  /\ Im.ndim = 3
  /\ Len(filter.par["WEIGHTS"]) = 27
  /\ filter.par["WEIGHTS"][14] = Lit(0, 0)
  /\ filter.par["NumberOfClasses"] = 2

\* the documented number of outputs of each filter
DocMaxOutputs(short) ==
  CASE short \in { "dandist", "signdandist" } -> 3
    [] short = "canny" -> 2
    [] OTHER -> 1

\* C20: each filter accepts between 0 and its declared number of requested
\* outputs (3 for dandist and signdandist, 2 for canny, 1 for the others);
\* requesting more fails before any parameter is read and before the
\* algorithm runs.
C20_OutputCount ==
  OnSupportedCell =>
    LET short == DocFilterOf(Name)
    IN  /\ nlhs > DocMaxOutputs(short) =>
             /\ pc \in DispatchStages \cup { "error" }
             /\ NothingBound
             /\ pc = "error" =>
                  /\ err.kind \in { "ArityError", "OutputArityError" }
                  /\ (Len(prhs) >= DocMinArguments(short)
                        /\ Len(prhs) <= DocMaxArguments(short)) =>
                       /\ err.kind = "OutputArityError"
                       /\ err.max = DocMaxOutputs(short)
                       /\ err.actual = nlhs
        /\ nlhs <= DocMaxOutputs(short) => ~FailedWith("OutputArityError")

C20_Witness ==
  /\ FailedWith("OutputArityError")
  /\ OnSupportedCell
  /\ Name = "canny"
  /\ nlhs = 3
  /\ err.max = 2

(***************************************************************************)
(* Failure handling and structure of the dispatch (design notes).          *)
(***************************************************************************)
\* the invocation under way repeats the recorded one and has ended
Repeated ==
  /\ prev # NoInvocation
  /\ prev.run = "again"
  /\ prhs = prev.prhs
  /\ nlhs = prev.nlhs
  /\ pc \in { "done", "error" }

\* the verdict of the ITK algorithm, which rests on the pixel data
AlgorithmFailed(e) == e.kind = "AlgorithmFailure"

DocCopied(short) ==
  CASE short = "canny" -> { "C" }
    [] short \in { "voteholefill", "maudist" } -> { "B" }
    [] OTHER -> { }

\* the registered outputs the caller has requested
RequestedOutputs ==
  { regOut[i] : i \in { j \in 1..Len(regOut) : IsRequested(j - 1, nlhs) } }

\* C22 (as written): on any failure, an algorithm failure included, no
\* output is allocated, grafted or filled
C22_NoOutputOnAnyFailure ==
  pc = "error" => out = EmptyMap

\* C22: every failure is terminal, and no output is ever filled on a failure
\* (Update() has not returned).  On a failure raised before the filter runs
\* (arity, rank, type, unknown filter, unsupported combination, coercion) no
\* output is allocated.  An algorithm failure is raised by Update() after the
\* graft: the requested outputs that are grafted are then allocated, those
\* that are copied after Update() are not
C22_FailureIsTerminal ==
  pc = "error" =>
    /\ err # NoFailure
    /\ ~filter.updated
    /\ ~AlgorithmFailed(err) => out = EmptyMap
    /\ AlgorithmFailed(err) =>
         DOMAIN out = RequestedOutputs \ DocCopied(SelectedShort)
    /\ ~ENABLED (Next /\ pc' # "idle")

\* Update() has failed in a canny call asking for both outputs: B is
\* allocated, C is not
C22_Witness ==
  /\ FailedWith("AlgorithmFailure")
  /\ SelectedShort = "canny"
  /\ nlhs = 2
  /\ DOMAIN out = { "B" }

\* the input a failure of the dispatch is about: the filter name, the rank
\* or the class of the image, or the filter with the rank and class
Trigger(e, args) ==
  CASE e.kind = "UnknownFilter" -> << args[1] >>
    [] e.kind = "RankOutOfRange" -> << args[2].ndim >>
    [] e.kind = "InvalidType" -> << args[2].type >>
    [] e.kind = "UnsupportedCombination" ->
         << DocFilterOf(args[1]), args[2].ndim, args[2].type >>
    [] OTHER -> << >>

\* C23: a failure identifies what triggered it (an unknown-filter failure
\* carries the name, an unsupported-combination failure the filter and the
\* rank or type, an invalid-type or invalid-rank failure the actual type or
\* rank): two invocations that fail in the same way on different offending
\* inputs end with different failure values
C23_FailureIdentifiesTrigger ==
  ( /\ prev # NoInvocation
    /\ pc = "error"
    /\ prev.pc = "error"
    /\ err.kind = prev.err.kind
    /\ err.kind \in { "UnknownFilter", "RankOutOfRange", "InvalidType",
                      "UnsupportedCombination" }
    /\ Trigger(err, prhs) # Trigger(prev.err, prev.prhs) )
  => err # prev.err

\* the body of a specialisation has been entered or left
InWrapper == pc \notin DispatchStages \cup { "idle" } \/ pc = "FilterWrapper"

\* failures of the dispatch cascade
DispatchFailures ==
  { "RankOutOfRange", "InvalidType", "UnknownFilter", "UnsupportedCombination" }

\* C24: maudist rejects a boolean image at each of the ranks 2, 3 and 4 with
\* 'SignedMaurerDistanceMapImageFilter does not accept input image with type
\* boolean', and at every rank runs its real specialisation for each of the
\* other eight element types
C24_MaurerRejectsBoolean ==
  (OnCell /\ DocFilterOf(Name) = "maudist") =>
    IF Im.type = "mxLOGICAL_CLASS"
    THEN /\ OnlyFails("UnsupportedCombination")
         /\ pc = "error" =>
              err.msg = "SignedMaurerDistanceMapImageFilter does not accept input image with type boolean"
    ELSE /\ pc = "error" => err.kind \notin DispatchFailures
         /\ InWrapper /\ pc # "error" =>
              /\ sel.body = "real"
              /\ sel.f = "nSignedMaurerDistanceMapImageFilter"
              /\ sel.t = DocTypeOf(Im.type)
              /\ sel.d = Im.ndim

\* maudist has rejected a boolean image of rank 4
C24_Witness ==
  /\ OnCell
  /\ DocFilterOf(Name) = "maudist"
  /\ Im.type = "mxLOGICAL_CLASS"
  /\ Im.ndim = 4
  /\ FailedWith("UnsupportedCombination")

\* the filter does not run on images of this class: the class is outside
\* the catalog, or the filter's table has no entry for its element type
DocRejectsType(short, c) ==
  \/ c \notin DocClasses
  \/ short = "canny" /\ DocTypeOf(c) \notin { "float", "double" }
  \/ short = "maudist" /\ DocTypeOf(c) = "mxLogical"

\* the filter does not run on images of this rank
DocRejectsRank(short, d) ==
  \/ d \notin DocRanks
  \/ short \in { "skel", "hesves", "advess" } /\ d # 3

\* the rejection message of a documented filter's stubs
DocStubMessage(short) ==
  CASE short = "canny" ->
         "CannyEdgeDetectionImageFilter only accepts input images with floating type (double or single)"
    [] short = "maudist" ->
         "SignedMaurerDistanceMapImageFilter does not accept input image with type boolean"
    [] short = "hesves" ->
         "MultiScaleHessianSmoothed3DToVesselnessMeasureImageFilter only accepts 3D input images"
    [] short = "advess" ->
         "AnisotropicDiffusionVesselEnhancementImageFilter only accepts 3D input images"
    [] short = "skel" ->
         "BinaryThinningImageFilter3D only accepts 3D input images"
    [] OTHER -> ""

\* the failure is a rejection of the element type, or of the rank
IsTypeRejection(e) ==
  \/ e.kind = "InvalidType"
  \/ /\ e.kind = "UnsupportedCombination"
     /\ e.msg \in { DocStubMessage("canny"), DocStubMessage("maudist") }

IsRankRejection(e) ==
  \/ e.kind = "RankOutOfRange"
  \/ /\ e.kind = "UnsupportedCombination"
     /\ e.msg \in { DocStubMessage("hesves"), DocStubMessage("advess"),
                    DocStubMessage("skel") }

\* the rejection a (filter, rank, class) cell is answered with
DocRejection(short, d, c) ==
  IF d \notin DocRanks
  THEN [kind |-> "RankOutOfRange",
        msg |-> "Input image can only have 2 to 4 dimensions"]
  ELSE IF c \notin DocClasses
  THEN [kind |-> "InvalidType",
        msg |-> IF c = "mxUNKNOWN_CLASS"
                THEN "Input matrix has unknown type."
                ELSE "Input matrix has invalid type."]
  ELSE [kind |-> "UnsupportedCombination", msg |-> DocStubMessage(short)]

\* the call names a documented filter, which rejects both the class and the
\* rank of the image
RejectsTypeAndRank ==
  /\ HasImage
  /\ Name \in DocNames
  /\ DocRejectsType(DocFilterOf(Name), Im.type)
  /\ DocRejectsRank(DocFilterOf(Name), Im.ndim)

\* C25 (as written): when the filter rejects both the element type and the
\* rank of the input, the failure reported is the element-type rejection
C25_TypeRejectionReportedFirst ==
  (RejectsTypeAndRank /\ pc = "error") => IsTypeRejection(err)

\* C25: the rejection reported is determined by (filter, rank, element
\* type): the rank failure when the rank is outside 2..4, else the type
\* failure when the class is outside the catalog, else the rejection of the
\* filter's stub.  No filter's stubs reject both a type and a rank, so a call
\* rejected on both counts has a rank outside 2..4, and then the rank failure
\* is reported, or a class outside the catalog, and then the type failure is
\* reported; such a call never reaches a real specialisation
C25_RejectionIsDetermined ==
  /\ (HasImage /\ Name \in DocNames /\ pc = "error"
        /\ err.kind \in DispatchFailures) =>
       /\ err.kind = DocRejection(DocFilterOf(Name), Im.ndim, Im.type).kind
       /\ err.msg = DocRejection(DocFilterOf(Name), Im.ndim, Im.type).msg
  /\ RejectsTypeAndRank =>
       /\ Im.ndim \notin DocRanks \/ Im.type \notin DocClasses
       /\ pc \in DispatchStages \cup { "error" }
       /\ pc = "error" =>
            IF Im.ndim \notin DocRanks
            THEN err.kind = "RankOutOfRange"
            ELSE err.kind = "InvalidType"

\* canny has been called on a boolean image of rank 5, which it rejects on
\* both counts: the rank failure is reported
C25_Witness ==
  /\ RejectsTypeAndRank
  /\ DocFilterOf(Name) = "canny"
  /\ Im.type = "mxLOGICAL_CLASS"
  /\ Im.ndim = 5
  /\ FailedWith("RankOutOfRange")

\* the filter-specific parameters have been registered at the import filter
ParametersRegistered ==
  /\ Len(regIn) = 2 + Len(Parameters(sel.f))
  /\ \A i \in 1..Len(Parameters(sel.f)) :
       regIn[2 + i] = Parameters(sel.f)[i].name

\* every parameter of the selected filter has been read and handed to it
ParametersRead ==
  \A i \in 1..Len(Parameters(sel.f)) :
    Parameters(sel.f)[i].name \in DOMAIN filter.par

\* C26: a real specialisation checks the number of arguments, then the
\* number of outputs, then registers its parameters and outputs, then reads
\* and coerces all its parameters, and only then grafts or copies outputs:
\* an output exists only once every parameter has been read, and a coercion
\* failure happens while no output has been allocated
C26_ParametersBeforeOutputs ==
  /\ regOut # << >> =>
       /\ sel.body = "real"
       /\ Len(prhs) >= MinNumberOfArguments(sel.f)
       /\ Len(prhs) <= InputIndexType_MAX(sel.f)
       /\ nlhs <= OutputIndexType_MAX(sel.f)
       /\ ParametersRegistered
  /\ FailedWith("OutputArityError") =>
       /\ Len(prhs) >= MinNumberOfArguments(sel.f)
       /\ Len(prhs) <= InputIndexType_MAX(sel.f)
       /\ regOut = << >>
  /\ filter # NoFilter => regOut # << >>
  /\ filter.par # EmptyMap => filter.f = sel.f /\ ParametersRead
  /\ pc \in { "graft", "update", "copy", "done" } => ParametersRead
  /\ out # EmptyMap => ParametersRead /\ pc \notin { "read", "graft" }
  /\ FailedWith("CoercionError") =>
       /\ out = EmptyMap
       /\ ParametersRegistered
       /\ filter.par = EmptyMap
       /\ \E i \in 1..Len(Parameters(sel.f)) :
            Parameters(sel.f)[i].name = err.param

\* the radius given to the median filter could not be coerced: the
\* parameters and outputs are registered, no output is allocated
C26_Witness ==
  /\ FailedWith("CoercionError")
  /\ SelectedShort = "median"
  /\ err.param = "RADIUS"
  /\ regOut # << >>
  /\ out = EmptyMap

\* the call passes more arguments, or asks for more outputs, than the named
\* filter takes
ExceedsFilterCounts ==
  \/ Len(prhs) > DocMaxArguments(DocFilterOf(Name))
  \/ nlhs > DocMaxOutputs(DocFilterOf(Name))

\* C27: the argument-count and output-count checks of a filter run only
\* inside its real specialisations: a call on an unsupported (filter, rank,
\* type) cell ends in the unsupported-combination failure even when it
\* passes more arguments or asks for more outputs than the filter takes, and
\* every output-count failure and every filter-specific argument-count
\* failure comes from a real specialisation
C27_UnsupportedBeforeCounts ==
  /\ (OnUnsupportedCell /\ ExceedsFilterCounts) =>
       OnlyFails("UnsupportedCombination")
  /\ FailedWith("OutputArityError") => sel.body = "real"
  /\ FailedWith("ArityError") =>
       \/ sel.body = "real"
       \/ sel = NoSelection /\ Len(prhs) < 2

\* canny has been called on an int16 image with one argument and one output
\* too many, and has failed as unsupported
C27_Witness ==
  /\ OnUnsupportedCell
  /\ DocFilterOf(Name) = "canny"
  /\ Im.type = "mxINT16_CLASS"
  /\ Len(prhs) > DocMaxArguments("canny")
  /\ nlhs > DocMaxOutputs("canny")
  /\ FailedWith("UnsupportedCombination")

\* C28: the rescaling of the mrf weights never divides by zero: once the
\* argument list has passed the checks and the parameters are read, the
\* number of classes is at least 1 and the sum of the weights is not zero
C28_RescalingNeverDividesByZero ==
  MRFParametersSet =>
    /\ filter.par["NumberOfClasses"] >= 1
    /\ DocSum(filter.par["WEIGHTS"], Len(filter.par["WEIGHTS"])) # 0

\* the product of 2 * h[i] + 1 over the first k axes
RECURSIVE DocNeighbourhoodLength(_, _)
DocNeighbourhoodLength(h, k) ==
  IF k = 0 THEN 1 ELSE DocNeighbourhoodLength(h, k - 1) * (2 * h[k] + 1)

\* the WEIGHTS array of an mrf call, when the caller gives one
WeightsSupplied == Len(prhs) >= 4

\* C29: the half-size the mrf filter is given is (size - 1) / 2 on each axis
\* of the WEIGHTS array (1 on each axis by default), and the weight vector
\* has exactly as many elements as the neighbourhood of that half-size, the
\* product of 2 * halfSize + 1 over the axes, for the default weights and
\* for every WEIGHTS array of the rank of the input, arrays with an even
\* size included
C29_WeightsFillNeighbourhood ==
  MRFParametersSet =>
    LET h == filter.par["neighHalfSize"]
        w == filter.par["WEIGHTS"]
    IN  /\ Len(h) = sel.d
        /\ \A i \in 1..sel.d :
             h[i] = IF WeightsSupplied
                    THEN (prhs[4].size[i] - 1) \div 2
                    ELSE 1
        /\ Len(w) = DocNeighbourhoodLength(h, sel.d)

\* the dispatch has selected a specialisation
Selected == sel.f # ""

\* the filters documented to run on every rank and element type
DocUnrestricted ==
  { "dandist", "signdandist", "appsigndist", "bwdilate", "bwerode", "median",
    "mrf", "voteholefill" }

\* C30: the primary FilterWrapper template ('Unsupported filter type') is
\* never selected: for every rank in 2..4, every catalog element type and
\* every accepted filter name the dispatch selects a real specialisation or
\* one of the explicit stubs of the filter, and the eight unrestricted
\* filters get their real specialisation on all 27 (rank, type) cells
C30_PrimaryTemplateUnreachable ==
  /\ sel.msg # "Unsupported filter type"
  /\ err.msg # "Unsupported filter type"
  /\ OnCell =>
       /\ pc \notin DispatchStages \cup { "error" } \/ pc = "FilterWrapper"
            => Selected
       /\ Selected =>
            /\ SelectedShort = DocFilterOf(Name)
            /\ sel.d = Im.ndim
            /\ sel.t = DocTypeOf(Im.type)
            /\ sel.body \in { "real", "stub" }
            /\ sel.body = "stub" =>
                 /\ sel.msg = DocStubMessage(DocFilterOf(Name))
                 /\ DocFilterOf(Name) \notin DocUnrestricted
            /\ DocFilterOf(Name) \in DocUnrestricted =>
                 /\ sel.body = "real"
                 /\ pc = "error" => err.kind \notin DispatchFailures

\* mrf has run on an int64 image of rank 4
C30_Witness ==
  /\ OnCell
  /\ DocFilterOf(Name) = "mrf"
  /\ Im.ndim = 4
  /\ Im.type = "mxINT64_CLASS"
  /\ sel.body = "real"
  /\ pc = "done"

====
